---- MODULE Spec2Model ----
(***************************************************************************)
(* Generated template programs of the LWC template compiler (the golden    *)
(* expected.js fixtures) executed against the render API.                  *)
(*                                                                         *)
(* A generated program is kept as the syntax tree of its JavaScript text:  *)
(* the hoisted declarations, the stcN constants, the expression returned   *)
(* by tmpl and the metadata assignments.  Rendering evaluates the returned *)
(* expression; the only state a render changes is the $fragmentN cache.    *)
(***************************************************************************)
EXTENDS Integers, Sequences, FiniteSets, TLC

(***************************************************************************)
(* Bounds of the exploration.                                              *)
(***************************************************************************)
MaxItems == 2
MaxRenders == 3
MaxDecls == 3
MaxSlots == 3
MaxCalls == 3

(***************************************************************************)
(* JavaScript syntax of the generated programs.                            *)
(***************************************************************************)
Num(n) == [t |-> "num", n |-> n]
Str(s) == [t |-> "str", s |-> s]
Bool(b) == [t |-> "bool", b |-> b]
Null == [t |-> "null"]
Undefined == [t |-> "undefined"]
Ref(name) == [t |-> "ref", name |-> name]
Member(of, prop) == [t |-> "member", of |-> of, prop |-> prop]
Arr(elems) == [t |-> "array", elems |-> elems]
Prop(name, val) == [name |-> name, val |-> val]
Obj(props) == [t |-> "object", props |-> props]
Call(fn, args) == [t |-> "call", fn |-> fn, args |-> args]
Cond(test, yes, no) == [t |-> "cond", test |-> test, yes |-> yes, no |-> no]
Func(param, body) == [t |-> "function", param |-> param, body |-> body]
\* $fragmentN || ($fragmentN = $hoistedN())
Lazy(fragment, hoisted) == [t |-> "lazy", fragment |-> fragment, hoisted |-> hoisted]
\* parseFragment`...${k}...`
Tpl(strings, holes) == [t |-> "template", strings |-> strings, holes |-> holes]
Decl(name, init) == [name |-> name, init |-> init]
Absent == [t |-> "absent"]

(***************************************************************************)
(* The generated programs.  Each record is one module of generated code:   *)
(*   fragments   the "let $fragmentN;" cache variables                     *)
(*   hoisted     the "const $hoistedN = ..." declarations                  *)
(*   stc         the "const stcN = ..." constants                          *)
(*   body        the expression returned by tmpl                           *)
(*   slots       the value assigned to tmpl.slots, Absent when there is no *)
(*               such statement                                            *)
(*   stylesheets the value assigned to tmpl.stylesheets                    *)
(***************************************************************************)
StyleTriple(prop, value, important) == Arr(<<Str(prop), Str(value), Bool(important)>>)

\* styleDecls: [["background", "blue", true], ["color", "red", false], ...]
styleImportant_styleDecls_reordered ==
  Arr(<< StyleTriple("background", "blue", TRUE),
         StyleTriple("opacity", "0.5", TRUE),
         StyleTriple("color", "red", FALSE) >>)

styleImportant_styleDecls ==
  Arr(<< StyleTriple("background", "blue", TRUE),
         StyleTriple("color", "red", FALSE),
         StyleTriple("opacity", "0.5", TRUE) >>)

tmpl_styleImportant ==
  [ fragments |-> <<>>,
    hoisted |-> <<
      Decl("$hoisted1",
        Call("api_element", <<
          Str("div"),
          Obj(<< Prop("styleDecls", styleImportant_styleDecls),
                 Prop("key", Num(0)),
                 Prop("isStatic", Bool(TRUE)) >>),
          Arr(<<>>) >>)) >>,
    stc |-> <<>>,
    body |-> Arr(<< Call("api_set_owner", <<Ref("$hoisted1")>>) >>),
    slots |-> Absent,
    stylesheets |-> Arr(<<>>) ]

\* key: api_key(4, item.id)  and  key: api_key(5, item.id)
staticSiblings_keyX1 == Call("api_key", <<Num(4), Member("item", "id")>>)

staticSiblings_keyX2_samePosition == Call("api_key", <<Num(4), Member("item", "id")>>)

staticSiblings_keyX2 == Call("api_key", <<Num(5), Member("item", "id")>>)

\* the child list of the third <section>
staticSiblings_section3List_sharedCache ==
  Arr(<<
    Call("api_static_fragment", <<Lazy("$fragment1", "$hoisted1"), Num(8)>>),
    Call("api_iterator", <<
      Member("$cmp", "items"),
      Func("item",
        Call("api_element", <<
          Str("div"),
          Obj(<<Prop("key", Call("api_key", <<Num(9), Member("item", "id")>>))>>)
        >>)) >>)
  >>)

staticSiblings_section3List ==
  Arr(<<
    Call("api_static_fragment", <<Lazy("$fragment2", "$hoisted2"), Num(8)>>),
    Call("api_iterator", <<
      Member("$cmp", "items"),
      Func("item",
        Call("api_element", <<
          Str("div"),
          Obj(<<Prop("key", Call("api_key", <<Num(9), Member("item", "id")>>))>>)
        >>)) >>)
  >>)

staticSiblings_section3Children_unflattened == staticSiblings_section3List

staticSiblings_section3Children == Call("api_flatten", <<staticSiblings_section3List>>)

tmpl_staticSiblings ==
  [ fragments |-> <<"$fragment1", "$fragment2", "$fragment3">>,
    hoisted |-> <<
      Decl("$hoisted1", Tpl(<<"<p", "", ">Last child</p>">>, <<1, 2>>)),
      Decl("$hoisted2", Tpl(<<"<p", "", ">Last child</p>">>, <<1, 2>>)),
      Decl("$hoisted3",
        Tpl(<<"<section class=\"s4", "\"", "><p", "", ">Other child1</p><p", "",
              ">Other child2</p></section>">>,
            <<0, 2, 1, 2, 1, 2>>)) >>,
    stc |-> <<
      Decl("stc0", Obj(<< Prop("classMap", Obj(<<Prop("s1", Bool(TRUE))>>)),
                          Prop("key", Num(0)) >>)),
      Decl("stc1", Obj(<< Prop("classMap", Obj(<<Prop("s2", Bool(TRUE))>>)),
                          Prop("key", Num(3)) >>)),
      Decl("stc2", Arr(<<>>)),
      Decl("stc3", Obj(<< Prop("classMap", Obj(<<Prop("s3", Bool(TRUE))>>)),
                          Prop("key", Num(6)) >>)) >>,
    body |-> Arr(<<
      Call("api_element", <<
        Str("section"),
        Ref("stc0"),
        Call("api_flatten", << Arr(<<
          Call("api_text", <<Str("Other Child")>>),
          Call("api_iterator", <<
            Member("$cmp", "items"),
            Func("item", Call("api_text", <<Str("X")>>)) >>),
          Call("api_static_fragment", <<Lazy("$fragment1", "$hoisted1"), Num(2)>>)
        >>) >>) >>),
      Call("api_element", <<
        Str("section"),
        Ref("stc1"),
        Call("api_flatten", << Arr(<<
          Call("api_text", <<Str("Other Child")>>),
          Cond(Member("$cmp", "isTrue"),
            Call("api_iterator", <<
              Member("$cmp", "items"),
              Func("item", Arr(<<
                Call("api_element", <<
                  Str("p"),
                  Obj(<<Prop("key", staticSiblings_keyX1)>>),
                  Arr(<<Call("api_text", <<Str("X1")>>)>>) >>),
                Call("api_element", <<
                  Str("p"),
                  Obj(<<Prop("key", staticSiblings_keyX2)>>),
                  Arr(<<Call("api_text", <<Str("X2")>>)>>) >>)
              >>)) >>),
            Ref("stc2"))
        >>) >>) >>),
      Call("api_element", <<
        Str("section"),
        Ref("stc3"),
        staticSiblings_section3Children >>),
      Call("api_static_fragment", <<Lazy("$fragment3", "$hoisted3"), Num(11)>>)
    >>),
    slots |-> Absent,
    stylesheets |-> Arr(<<>>) ]

\* the children of the slotted <p>: [api_set_owner($hoisted2)]
commentsSlots_pChildren_noOwner == Arr(<<Ref("$hoisted2")>>)

commentsSlots_pChildren == Arr(<<Call("api_set_owner", <<Ref("$hoisted2")>>)>>)

tmpl_commentsSlots ==
  [ fragments |-> <<>>,
    hoisted |-> <<
      Decl("$hoisted1", Call("api_comment", <<Str(" HTML comment inside slot ")>>)),
      Decl("$hoisted2", Call("api_text", <<Str("slot content")>>)) >>,
    stc |-> <<
      Decl("stc0", Obj(<<Prop("key", Num(0))>>)),
      Decl("stc1", Obj(<<Prop("key", Num(1))>>)) >>,
    body |-> Arr(<<
      Call("api_custom_element", <<
        Str("x-child"),
        Ref("_xChild"),
        Ref("stc0"),
        Arr(<<
          Call("api_set_owner", <<Ref("$hoisted1")>>),
          Call("api_element", <<
            Str("p"),
            Ref("stc1"),
            commentsSlots_pChildren >>)
        >>) >>)
    >>),
    slots |-> Absent,
    stylesheets |-> Arr(<<>>) ]

tmpl_slotDefinition ==
  [ fragments |-> <<>>,
    hoisted |-> <<
      Decl("$hoisted1",
        Call("api_element", <<
          Str("p"),
          Obj(<<Prop("key", Num(2)), Prop("isStatic", Bool(TRUE))>>),
          Arr(<<Call("api_text", <<Str("Default slot content")>>)>>) >>)) >>,
    stc |-> <<
      Decl("stc0", Obj(<<Prop("key", Num(0))>>)),
      Decl("stc1", Obj(<<Prop("key", Num(1))>>)) >>,
    body |-> Arr(<<
      Call("api_element", <<
        Str("section"),
        Ref("stc0"),
        Arr(<<
          Call("api_slot", <<
            Str(""),
            Ref("stc1"),
            Arr(<<Call("api_set_owner", <<Ref("$hoisted1")>>)>>),
            Ref("$slotset") >>)
        >>) >>)
    >>),
    slots |-> Arr(<<Str("")>>),
    stylesheets |-> Arr(<<>>) ]

tmpl_tableFragment ==
  [ fragments |-> <<"$fragment1">>,
    hoisted |-> <<
      Decl("$hoisted1",
        Tpl(<<"<table", "", "><tbody", "", "><tr", "", "></tr></tbody></table>">>,
            <<1, 2, 1, 2, 1, 2>>)) >>,
    stc |-> <<>>,
    body |-> Arr(<<
      Call("api_static_fragment", <<Lazy("$fragment1", "$hoisted1"), Num(1)>>)
    >>),
    slots |-> Absent,
    stylesheets |-> Arr(<<>>) ]

\* the key of the default content of the slot "test"
namedSlot_fragmentKey_otherSlot == Str("@:3")

namedSlot_fragmentKey == Str("@test:3")

\* the first argument of api_slot("test", ...)
namedSlot_slotName_unnamed == Str("")

namedSlot_slotName == Str("test")

tmpl_namedSlot ==
  [ fragments |-> <<"$fragment1">>,
    hoisted |-> <<
      Decl("$hoisted1", Tpl(<<"<p", "", ">Test slot content</p>">>, <<1, 2>>)) >>,
    stc |-> <<
      Decl("stc0", Obj(<<Prop("key", Num(0))>>)),
      Decl("stc1", Obj(<< Prop("attrs", Obj(<<Prop("name", Str("test"))>>)),
                          Prop("key", Num(1)) >>)) >>,
    body |-> Arr(<<
      Call("api_element", <<
        Str("section"),
        Ref("stc0"),
        Arr(<<
          Call("api_slot", <<
            namedSlot_slotName,
            Ref("stc1"),
            Arr(<<
              Call("api_static_fragment",
                   <<Lazy("$fragment1", "$hoisted1"), namedSlot_fragmentKey>>)
            >>),
            Ref("$slotset") >>)
        >>) >>)
    >>),
    slots |-> Arr(<<Str("test")>>),
    stylesheets |-> Arr(<<>>) ]

\* tmpl.slots = [""]
defaultSlot_slots == Arr(<<Str("")>>)

tmpl_defaultSlot ==
  [ fragments |-> <<"$fragment1">>,
    hoisted |-> <<
      Decl("$hoisted1", Tpl(<<"<p", "", ">Default slot content</p>">>, <<1, 2>>)) >>,
    stc |-> <<
      Decl("stc0", Obj(<<Prop("key", Num(0))>>)),
      Decl("stc1", Obj(<<Prop("key", Num(1))>>)) >>,
    body |-> Arr(<<
      Call("api_element", <<
        Str("section"),
        Ref("stc0"),
        Arr(<<
          Call("api_slot", <<
            Str(""),
            Ref("stc1"),
            Arr(<<
              Call("api_static_fragment",
                   <<Lazy("$fragment1", "$hoisted1"), Str("@:3")>>)
            >>),
            Ref("$slotset") >>)
        >>) >>)
    >>),
    slots |-> defaultSlot_slots,
    stylesheets |-> Arr(<<>>) ]

\* readonly: $cmp.getReadOnly ? "" : null
booleanAttrs_readonly_literal == Str("")

booleanAttrs_readonly == Cond(Member("$cmp", "getReadOnly"), Str(""), Null)

tmpl_booleanAttrs ==
  [ fragments |-> <<"$fragment1">>,
    hoisted |-> <<
      Decl("$hoisted1", Tpl(<<"<p hidden", "", ">x</p>">>, <<1, 2>>)) >>,
    stc |-> <<>>,
    body |-> Arr(<<
      Call("api_static_fragment", <<Lazy("$fragment1", "$hoisted1"), Num(1)>>),
      Call("api_element", <<
        Str("input"),
        Obj(<<
          Prop("attrs", Obj(<<
            Prop("readonly", booleanAttrs_readonly),
            Prop("disabled", Str("")),
            Prop("title", Str("foo")) >>)),
          Prop("key", Num(2)) >>)
      >>)
    >>),
    slots |-> Absent,
    stylesheets |-> Arr(<<>>) ]

tmpl_textareaFragment ==
  [ fragments |-> <<"$fragment1">>,
    hoisted |-> <<
      Decl("$hoisted1",
        Tpl(<<"<section", "",
              "><textarea minlength=\"1\" maxlength=\"5\" unknown-attr=\"should-error\"",
              "", ">x</textarea></section>">>,
            <<1, 2, 1, 2>>)) >>,
    stc |-> <<>>,
    body |-> Arr(<<
      Call("api_static_fragment", <<Lazy("$fragment1", "$hoisted1"), Num(1)>>)
    >>),
    slots |-> Absent,
    stylesheets |-> Arr(<<>>) ]

ProgramNames ==
  { "styleImportant", "staticSiblings", "commentsSlots", "slotDefinition",
    "tableFragment", "namedSlot", "defaultSlot", "booleanAttrs", "textareaFragment" }

Program(p) ==
  CASE p = "styleImportant" -> tmpl_styleImportant
    [] p = "staticSiblings" -> tmpl_staticSiblings
    [] p = "commentsSlots" -> tmpl_commentsSlots
    [] p = "slotDefinition" -> tmpl_slotDefinition
    [] p = "tableFragment" -> tmpl_tableFragment
    [] p = "namedSlot" -> tmpl_namedSlot
    [] p = "defaultSlot" -> tmpl_defaultSlot
    [] p = "booleanAttrs" -> tmpl_booleanAttrs
    [] p = "textareaFragment" -> tmpl_textareaFragment

(***************************************************************************)
(* Runtime values.  Literals, arrays and objects evaluate to records of    *)
(* the same shape as their syntax; the render API builds virtual nodes.    *)
(***************************************************************************)
IsArray(v) == v.t = "array"

Truthy(v) ==
  CASE v.t = "undefined" -> FALSE
    [] v.t = "null" -> FALSE
    [] v.t = "bool" -> v.b
    [] v.t = "num" -> v.n # 0
    [] v.t = "str" -> v.s # ""
    [] OTHER -> TRUE

\* obj[name] of an object value, undefined when there is no such property
GetProp(obj, name) ==
  IF obj.t = "object" /\ \E i \in 1..Len(obj.props) : obj.props[i].name = name
  THEN obj.props[CHOOSE i \in 1..Len(obj.props) : obj.props[i].name = name].val
  ELSE Undefined

\* the initialiser of the declaration called name in a list of declarations
InitOf(decls, name) ==
  decls[CHOOSE i \in 1..Len(decls) : decls[i].name = name].init

Declared(decls) == { decls[i].name : i \in 1..Len(decls) }

Range(seq) == { seq[i] : i \in 1..Len(seq) }

VNode(type, sel, text, data, children, key, fragment) ==
  [ t |-> "vnode", type |-> type, sel |-> sel, text |-> text, data |-> data,
    children |-> children, key |-> key, fragment |-> fragment, owner |-> Undefined,
    ctor |-> Undefined ]

(***************************************************************************)
(* The render API the generated programs call.                             *)
(***************************************************************************)
api_text(text) ==
  VNode("text", Undefined, text, Undefined, Undefined, Undefined, Undefined)

api_comment(text) ==
  VNode("comment", Undefined, text, Undefined, Undefined, Undefined, Undefined)

api_element(sel, data, children) ==
  VNode("element", sel, Undefined, data,
        IF children.t = "undefined" THEN Arr(<<>>) ELSE children,
        GetProp(data, "key"), Undefined)

api_custom_element(sel, Ctor, data, children) ==
  [ VNode("custom-element", sel, Undefined, data,
          IF children.t = "undefined" THEN Arr(<<>>) ELSE children,
          GetProp(data, "key"), Undefined) EXCEPT !.ctor = Ctor ]

api_set_owner(vnode) == [vnode EXCEPT !.owner = Str("vmBeingRendered")]

api_static_fragment(fragment, key) ==
  VNode("static", Undefined, Undefined, Undefined, Undefined, key, fragment)

\* the content the caller supplied for slotName wins when it is not empty
api_slot(slotName, data, children, slotset) ==
  LET supplied == IF slotset.t = "undefined" THEN Undefined
                  ELSE GetProp(slotset, slotName.s)
      content == IF supplied.t # "undefined" /\ Len(supplied.elems) # 0
                 THEN supplied ELSE children
  IN  VNode("element", Str("slot"), Undefined, data, content,
            GetProp(data, "key"), Undefined)

\* the members of a list, each array member replaced by its elements
RECURSIVE Splice(_)
Splice(list) ==
  IF list = <<>> THEN <<>>
  ELSE (IF IsArray(Head(list)) THEN Head(list).elems ELSE <<Head(list)>>)
       \o Splice(Tail(list))

\* one level of nested arrays is spliced into the list
api_flatten(items) == Arr(Splice(items.elems))

\* the compiler's position, a colon, the author's key
api_key(compilerKey, obj) == Str(ToString(compilerKey.n) \o ":" \o obj.s)

\* a new instance made by calling the function parseFragment returned
FragmentInstance(hoisted, serial) ==
  [ t |-> "fragment", of |-> hoisted, serial |-> serial ]

\* every vnode the factory returned, arrays spliced in, in iteration order
api_iterator(produced) == Arr(Splice(produced))

LazyFragment_alwaysCreate(cached, instance) == instance

\* the value of  $fragmentN || ($fragmentN = $hoistedN())
LazyFragment(cached, instance) ==
  IF Truthy(cached) THEN cached ELSE instance

(***************************************************************************)
(* Evaluation of an expression of a generated program.  env holds the      *)
(* arguments of tmpl ($cmp, $slotset), the iteration variable, the module  *)
(* constants and the fragment caches.                                      *)
(***************************************************************************)
ArgOr(args, i) == IF i <= Len(args) THEN args[i] ELSE Undefined

Apply(fn, a) ==
  CASE fn = "api_text" -> api_text(a[1])
    [] fn = "api_comment" -> api_comment(a[1])
    [] fn = "api_element" -> api_element(a[1], a[2], ArgOr(a, 3))
    [] fn = "api_custom_element" -> api_custom_element(a[1], a[2], a[3], ArgOr(a, 4))
    [] fn = "api_set_owner" -> api_set_owner(a[1])
    [] fn = "api_static_fragment" -> api_static_fragment(a[1], a[2])
    [] fn = "api_slot" -> api_slot(a[1], a[2], a[3], a[4])
    [] fn = "api_flatten" -> api_flatten(a[1])
    [] fn = "api_key" -> api_key(a[1], a[2])

RECURSIVE Eval(_, _), EvalAll(_, _), EvalProps(_, _), EvalEach(_, _, _)
\* the values of a list of expressions, left to right
EvalAll(es, env) ==
  IF es = <<>> THEN <<>> ELSE <<Eval(Head(es), env)>> \o EvalAll(Tail(es), env)

\* the properties of an object literal, in source order
EvalProps(props, env) ==
  IF props = <<>> THEN <<>>
  ELSE <<Prop(Head(props).name, Eval(Head(props).val, env))>> \o EvalProps(Tail(props), env)

\* what the iteration function returns for each item of a collection
EvalEach(body, coll, env) ==
  IF coll = <<>> THEN <<>>
  ELSE <<Eval(body, [env EXCEPT !.item = Head(coll)])>> \o EvalEach(body, Tail(coll), env)

Eval(e, env) ==
  CASE e.t \in {"num", "str", "bool", "null", "undefined"} -> e
    [] e.t = "ref" ->
         IF e.name = "$slotset" THEN env.slotset
         ELSE IF e.name \in DOMAIN env.hoisted THEN env.hoisted[e.name]
         ELSE IF e.name \in Declared(env.program.stc)
              THEN Eval(InitOf(env.program.stc, e.name), env)
         ELSE [t |-> "import", name |-> e.name]
    [] e.t = "member" ->
         GetProp(IF e.of = "$cmp" THEN env.cmp ELSE env.item, e.prop)
    [] e.t = "array" -> Arr(EvalAll(e.elems, env))
    [] e.t = "object" -> Obj(EvalProps(e.props, env))
    [] e.t = "cond" ->
         IF Truthy(Eval(e.test, env)) THEN Eval(e.yes, env) ELSE Eval(e.no, env)
    [] e.t = "template" -> [t |-> "factory", strings |-> e.strings, holes |-> e.holes]
    [] e.t = "lazy" ->
         LazyFragment(env.fragment[e.fragment],
                      FragmentInstance(e.hoisted, env.created[e.hoisted] + 1))
    [] e.t = "call" ->
         IF e.fn = "api_iterator"
         THEN api_iterator(EvalEach(e.args[2].body, Eval(e.args[1], env).elems, env))
         ELSE Apply(e.fn, EvalAll(e.args, env))

\* the fragment expressions a render evaluates
RECURSIVE Touched(_, _)
Touched(e, env) ==
  CASE e.t = "lazy" -> {e}
    [] e.t = "array" -> UNION { Touched(e.elems[i], env) : i \in 1..Len(e.elems) }
    [] e.t = "object" -> UNION { Touched(e.props[i].val, env) : i \in 1..Len(e.props) }
    [] e.t = "cond" ->
         Touched(e.test, env) \cup
         (IF Truthy(Eval(e.test, env)) THEN Touched(e.yes, env) ELSE Touched(e.no, env))
    [] e.t = "call" ->
         IF e.fn = "api_iterator"
         THEN LET coll == Eval(e.args[1], env).elems
              IN  Touched(e.args[1], env) \cup
                  UNION { Touched(e.args[2].body, [env EXCEPT !.item = coll[j]]) :
                            j \in 1..Len(coll) }
         ELSE UNION { Touched(e.args[i], env) : i \in 1..Len(e.args) }
    [] OTHER -> {}

(***************************************************************************)
(* The inputs of a render: the component's properties and the slot         *)
(* content the caller supplies.                                            *)
(***************************************************************************)
ItemIds == {"a", "b", "4:a"}

Item(id) == Obj(<<Prop("id", Str(id))>>)

SeqsUpTo(S, n) == UNION { [1..k -> S] : k \in 0..n }

\* the properties of $cmp an expression reads
RECURSIVE CmpProps(_)
CmpProps(e) ==
  CASE e.t = "member" -> IF e.of = "$cmp" THEN {e.prop} ELSE {}
    [] e.t = "array" -> UNION { CmpProps(e.elems[i]) : i \in 1..Len(e.elems) }
    [] e.t = "object" -> UNION { CmpProps(e.props[i].val) : i \in 1..Len(e.props) }
    [] e.t = "cond" -> CmpProps(e.test) \cup CmpProps(e.yes) \cup CmpProps(e.no)
    [] e.t = "function" -> CmpProps(e.body)
    [] e.t = "call" -> UNION { CmpProps(e.args[i]) : i \in 1..Len(e.args) }
    [] OTHER -> {}

\* whether an expression reads $slotset
RECURSIVE ReadsSlotset(_)
ReadsSlotset(e) ==
  CASE e.t = "ref" -> e.name = "$slotset"
    [] e.t = "array" -> \E i \in 1..Len(e.elems) : ReadsSlotset(e.elems[i])
    [] e.t = "object" -> \E i \in 1..Len(e.props) : ReadsSlotset(e.props[i].val)
    [] e.t = "cond" -> ReadsSlotset(e.test) \/ ReadsSlotset(e.yes) \/ ReadsSlotset(e.no)
    [] e.t = "function" -> ReadsSlotset(e.body)
    [] e.t = "call" -> \E i \in 1..Len(e.args) : ReadsSlotset(e.args[i])
    [] OTHER -> FALSE

\* the component of a template has the properties the template reads
Components(p) ==
  LET reads == CmpProps(Program(p).body)
      items == IF "items" \in reads
               THEN { <<Prop("items", Arr(ids))>> :
                        ids \in SeqsUpTo({ Item(id) : id \in ItemIds }, MaxItems) }
               ELSE {<<>>}
      isTrue == IF "isTrue" \in reads
                THEN { <<Prop("isTrue", Bool(b))>> : b \in BOOLEAN } ELSE {<<>>}
      getReadOnly == IF "getReadOnly" \in reads
                     THEN { <<Prop("getReadOnly", Bool(b))>> : b \in BOOLEAN } ELSE {<<>>}
  IN  { Obj(i \o t \o r) : i \in items, t \in isTrue, r \in getReadOnly }

CallerContent(n) == api_text(Str("caller content " \o ToString(n)))

SlotContents ==
  { Undefined, Arr(<<>>), Arr(<<CallerContent(1)>>),
    Arr(<<CallerContent(1), CallerContent(2)>>) }

\* slot content reaches a template only through $slotset
Slotsets(p) ==
  IF ReadsSlotset(Program(p).body)
  THEN {Undefined} \cup
       { Obj(SelectSeq(<<Prop("", c1), Prop("test", c2)>>,
                       LAMBDA pr : pr.val.t # "undefined")) :
           c1 \in SlotContents, c2 \in SlotContents }
  ELSE {Undefined}

(***************************************************************************)
(* Compilation of a style attribute.  The attribute text is a list of      *)
(* tokens: property and value words and the marks ":", ";", "!important".  *)
(***************************************************************************)
\* the pieces of a token list between the occurrences of a mark
RECURSIVE SplitAt(_, _, _)
SplitAt(tokens, mark, piece) ==
  IF tokens = <<>> THEN <<piece>>
  ELSE IF Head(tokens) = mark THEN <<piece>> \o SplitAt(Tail(tokens), mark, <<>>)
  ELSE SplitAt(Tail(tokens), mark, Append(piece, Head(tokens)))

\* one triple per declaration, in the order of the text
RECURSIVE DeclTriples(_)
DeclTriples(pieces) ==
  IF pieces = <<>> THEN <<>>
  ELSE LET sides == SplitAt(Head(pieces), ":", <<>>)
       IN  (IF Len(sides) = 2 /\ sides[1] # <<>> /\ sides[2] # <<>>
            THEN << StyleTriple(sides[1][1], sides[2][1],
                                \E i \in 1..Len(sides[2]) : sides[2][i] = "!important") >>
            ELSE <<>>)
           \o DeclTriples(Tail(pieces))

StyleDecls(text) == Arr(DeclTriples(SplitAt(text, ";", <<>>)))

\* style="background:blue!important;color:red;opacity:0.5!important"
styleImportant_authored ==
  << "background", ":", "blue", "!important", ";", "color", ":", "red", ";",
     "opacity", ":", "0.5", "!important" >>

Declarations ==
  { <<d[1], ":", d[2]>> \o (IF i THEN <<"!important">> ELSE <<>>) :
      d \in {<<"background", "blue">>, <<"color", "red">>, <<"opacity", "0.5">>},
      i \in BOOLEAN }

RECURSIVE Join(_)
Join(decls) ==
  IF decls = <<>> THEN <<>>
  ELSE IF Len(decls) = 1 THEN Head(decls)
  ELSE Head(decls) \o <<";">> \o Join(Tail(decls))

\* the style attributes an author writes, with or without a closing ";"
AuthoredStyles ==
  UNION { {Join(decls), Join(decls) \o <<";">>} : decls \in SeqsUpTo(Declarations, MaxDecls) }

(***************************************************************************)
(* State: the module under test after its evaluation, and its renders.     *)
(***************************************************************************)
VARIABLES
  prog,       \* the generated program that was loaded
  hoisted,    \* the values of the const $hoistedN declarations
  fragment,   \* the $fragmentN cache variables
  created,    \* how often the creation expression of $hoistedN has run
  cmp,        \* $cmp of the last render
  slotset,    \* $slotset of the last render
  out,        \* what the last call of tmpl returned
  renders,    \* number of calls of tmpl
  styleText,  \* the style attribute given to the compiler
  styleDecls, \* the styleDecls the compiler made of it, undefined before
  pc,         \* the next top-level statement after function tmpl
  tmplProps,  \* the properties of the function object tmpl
  registered, \* what registerTemplate found on tmpl, one entry per call
  template,      \* the <slot> declarations of the template given to the compiler
  position,      \* how many of them the validator has walked
  declaredSlots, \* the slot names it has recorded
  diagnostics,   \* the errors it has collected
  generated,     \* the metadata of the generated program, once compiled
  patched,                   \* nativeRegistry[registryPatchedSymbol]
  replaced,                  \* how often define/get/whenDefined/HTMLElement were replaced
  definitionsByTag,          \* Map tag -> definition (named by its UserCtor)
  definitionsByClass,        \* Map constructor -> definition
  definitionForConstructor,  \* WeakMap constructor -> definition (its keys)
  pivotCtorByTag,            \* Map tag -> PivotCtor (named by its registeredDefinition)
  definitionPivotCtor,       \* the PivotCtor field of the definitions
  nativeRegistry,            \* the names the native registry has a definition for
  awaitingUpgrade,           \* Map tag -> Set of elements, in insertion order
  upgradingInstance,         \* the instance internalUpgrade hands to HTMLElement
  pendingRegistryForElement, \* WeakMap element -> registeredDefinition
  definitionForElement,      \* WeakMap element -> definition
  elements,                  \* the elements created so far: tag, connected, made by
                             \* a PivotCtor, upgrades, last callback delegated
  document,                  \* the connected elements, in tree order
  definedPromises,           \* Map tag -> promise
  definedResolvers,          \* Map tag -> resolver (its keys)
  promises,                  \* the promises whenDefined returned
  defined,                   \* name -> constructor of the define calls that returned
  last,                      \* the last call on the registry and its outcome
  calls                      \* number of define, helper, whenDefined and
                             \* createElement calls

moduleVars == <<prog, hoisted, fragment, created, cmp, slotset, out, renders,
                pc, tmplProps, registered>>

templateVars == <<prog, hoisted, fragment, created, cmp, slotset, out, renders,
                  styleText, styleDecls, pc, tmplProps, registered>>

slotVars == <<template, position, declaredSlots, diagnostics, generated>>

registryVars == <<patched, replaced, definitionsByTag, definitionsByClass,
                  definitionForConstructor, pivotCtorByTag, definitionPivotCtor,
                  nativeRegistry, awaitingUpgrade, upgradingInstance, document,
                  pendingRegistryForElement, definitionForElement, elements,
                  definedPromises, definedResolvers, promises, defined, last, calls>>

vars == <<templateVars, slotVars, registryVars>>

Env(p, h, f, c, component, slots) ==
  [ program |-> Program(p), hoisted |-> h, fragment |-> f, created |-> c,
    cmp |-> component, slotset |-> slots, item |-> Undefined ]

\* the statements of a generated module that follow function tmpl
Statements_metadataFirst(p) ==
  (IF Program(p).slots = Absent THEN <<>>
   ELSE <<[t |-> "assign", prop |-> "slots", val |-> Program(p).slots]>>)
  \o <<[t |-> "assign", prop |-> "stylesheets", val |-> Program(p).stylesheets]>>
  \o <<[t |-> "export", prop |-> "default", val |-> Call("registerTemplate", <<Ref("tmpl")>>)]>>

Statements(p) ==
  <<[t |-> "export", prop |-> "default", val |-> Call("registerTemplate", <<Ref("tmpl")>>)]>>
  \o (IF Program(p).slots = Absent THEN <<>>
      ELSE <<[t |-> "assign", prop |-> "slots", val |-> Program(p).slots]>>)
  \o <<[t |-> "assign", prop |-> "stylesheets", val |-> Program(p).stylesheets]>>

\* a function object without properties of its own
NoProps == [slots |-> Absent, stylesheets |-> Absent]

Evaluated == pc > Len(Statements(prog))

\* module evaluation: the let/const declarations run once, top to bottom
Loaded(p) ==
  /\ prog = p
  /\ hoisted = [ n \in Declared(Program(prog).hoisted) |->
                   Eval(InitOf(Program(prog).hoisted, n),
                        Env(prog, <<>>, <<>>, <<>>, Undefined, Undefined)) ]
  /\ fragment = [ f \in Range(Program(prog).fragments) |-> Undefined ]
  /\ created = [ n \in Declared(Program(prog).hoisted) |->
                   IF InitOf(Program(prog).hoisted, n).t = "template" THEN 0 ELSE 1 ]
  /\ cmp = Undefined
  /\ slotset = Undefined
  /\ out = Undefined
  /\ renders = 0
  /\ pc = 1
  /\ tmplProps = NoProps
  /\ registered = <<>>

\* a Map or WeakMap without entries
EmptyMap == [k \in {} |-> "undefined"]

NoCall == [op |-> "none", name |-> "", ctor |-> "undefined", ext |-> FALSE,
           result |-> "undefined"]

\* upgradingInstance is undefined, or an element of the document (instance),
\* or an instance that was under construction and belongs to no document:
\* its tag, its definition and the attributes patched on it
NoInstance ==
  [defined |-> FALSE, instance |-> 0, tag |-> "", definition |-> "undefined", offset |-> {}]

\* the module state of global-registry.ts before patchCustomElementRegistry
Unpatched ==
  /\ patched = FALSE
  /\ replaced = 0
  /\ definitionsByTag = EmptyMap
  /\ definitionsByClass = EmptyMap
  /\ definitionForConstructor = {}
  /\ pivotCtorByTag = EmptyMap
  /\ definitionPivotCtor = EmptyMap
  /\ nativeRegistry = {}
  /\ awaitingUpgrade = EmptyMap
  /\ upgradingInstance = NoInstance
  /\ pendingRegistryForElement = EmptyMap
  /\ definitionForElement = EmptyMap
  /\ elements = EmptyMap
  /\ document = <<>>
  /\ definedPromises = EmptyMap
  /\ definedResolvers = {}
  /\ promises = <<>>
  /\ defined = EmptyMap
  /\ last = NoCall
  /\ calls = 0

\* no program has been generated
NoProgram == [compiled |-> FALSE, usable |-> FALSE, slots |-> Absent]

\* the compiler has no template of its own to compile
NoTemplate ==
  /\ template = <<>>
  /\ position = 0
  /\ declaredSlots = <<>>
  /\ diagnostics = <<>>
  /\ generated = NoProgram

\* one of the generated modules, compiled and evaluated
Init ==
  /\ \E p \in ProgramNames : Loaded(p)
  /\ NoTemplate
  /\ Unpatched
  /\ styleText = styleImportant_authored
  /\ styleDecls = StyleDecls(styleImportant_authored)

\* the next statement after function tmpl: the export of registerTemplate(tmpl)
\* or an assignment tmpl.<prop> = <value>
Evaluate ==
  LET s == Statements(prog)[pc]
      env == Env(prog, hoisted, fragment, created, Undefined, Undefined)
  IN  /\ ~Evaluated
      /\ registered' = IF s.t = "export" THEN Append(registered, tmplProps)
                       ELSE registered
      /\ tmplProps' = IF s.t = "assign"
                      THEN [tmplProps EXCEPT ![s.prop] = Eval(s.val, env)]
                      ELSE tmplProps
      /\ pc' = pc + 1
      /\ UNCHANGED <<prog, hoisted, fragment, created, cmp, slotset, out, renders,
                     styleText, styleDecls, slotVars, registryVars>>

\* one call tmpl($api, $cmp, $slotset, $ctx)
Render(component, slots) ==
  LET env == Env(prog, hoisted, fragment, created, component, slots)
      touched == Touched(Program(prog).body, env)
  IN  /\ Evaluated
      /\ renders < MaxRenders
      /\ out' = Eval(Program(prog).body, env)
      /\ fragment' = [ f \in DOMAIN fragment |->
                         IF \E e \in touched : e.t = "lazy" /\ e.fragment = f
                         THEN LET e == CHOOSE e \in touched : e.fragment = f
                              IN  LazyFragment(fragment[f],
                                    FragmentInstance(e.hoisted, created[e.hoisted] + 1))
                         ELSE fragment[f] ]
      /\ created' = [ n \in DOMAIN created |->
                        IF \E e \in touched :
                             /\ e.t = "lazy" /\ e.hoisted = n
                             /\ LazyFragment(fragment[e.fragment],
                                   FragmentInstance(n, created[n] + 1))
                                  # fragment[e.fragment]
                        THEN created[n] + 1 ELSE created[n] ]
      /\ cmp' = component
      /\ slotset' = slots
      /\ renders' = renders + 1
      /\ UNCHANGED <<prog, hoisted, styleText, styleDecls, pc, tmplProps, registered,
                     slotVars, registryVars>>

Next ==
  \/ Evaluate
  \/ \E component \in Components(prog), slots \in Slotsets(prog) : Render(component, slots)

Spec == Init /\ [][Next]_vars

(***************************************************************************)
(* The compilation of style attributes on its own: any authored style is   *)
(* given to the compiler, which emits its styleDecls.                      *)
(***************************************************************************)
StyleInit ==
  /\ Loaded("styleImportant")
  /\ NoTemplate
  /\ Unpatched
  /\ styleText \in AuthoredStyles
  /\ styleDecls = Undefined

CompileStyle ==
  /\ styleDecls = Undefined
  /\ styleDecls' = StyleDecls(styleText)
  /\ UNCHANGED <<moduleVars, styleText, slotVars, registryVars>>

StyleNext == CompileStyle

StyleSpec == StyleInit /\ [][StyleNext]_vars

(***************************************************************************)
(* The slot declarations of a template.  The validator walks the <slot>    *)
(* elements of the template and records their names, the empty string for  *)
(* a slot without a name; a name declared before is a SemanticError.  The  *)
(* generator attaches the declared names to the program; a template with   *)
(* an error yields no usable program.                                      *)
(***************************************************************************)
SlotNames == {"", "test", "footer"}

\* a <slot> element: with a name attribute or without one
SlotDeclarations ==
  {[named |-> FALSE, name |-> ""]} \cup {[named |-> TRUE, name |-> n] : n \in SlotNames}

Templates == SeqsUpTo(SlotDeclarations, MaxSlots)

\* the name a <slot> is recorded under
SlotName(declaration) == IF declaration.named THEN declaration.name ELSE ""

\* the statement tmpl.slots = [...] of the generated program
SlotsStatement(names) ==
  IF names = <<>> THEN Absent ELSE Arr([i \in 1..Len(names) |-> Str(names[i])])

SlotInit ==
  /\ Loaded("defaultSlot")
  /\ styleText = styleImportant_authored
  /\ styleDecls = StyleDecls(styleImportant_authored)
  /\ Unpatched
  /\ template \in Templates
  /\ position = 0
  /\ declaredSlots = <<>>
  /\ diagnostics = <<>>
  /\ generated = NoProgram

\* the validator walks the next <slot> of the template
ValidateSlot_allowDuplicates ==
  /\ position < Len(template)
  /\ position' = position + 1
  /\ declaredSlots' = Append(declaredSlots, SlotName(template[position + 1]))
  /\ UNCHANGED <<templateVars, registryVars, template, diagnostics, generated>>

ValidateSlot ==
  LET name == SlotName(template[position + 1])
  IN  /\ position < Len(template)
      /\ position' = position + 1
      /\ IF name \in Range(declaredSlots)
         THEN /\ diagnostics' = Append(diagnostics, "SemanticError")
              /\ UNCHANGED declaredSlots
         ELSE /\ declaredSlots' = Append(declaredSlots, name)
              /\ UNCHANGED diagnostics
      /\ UNCHANGED <<templateVars, registryVars, template, generated>>

\* the generator emits the program of a template without errors
Generate ==
  /\ position = Len(template)
  /\ ~generated.compiled
  /\ generated' = [ compiled |-> TRUE, usable |-> diagnostics = <<>>,
                    slots |-> IF diagnostics = <<>> THEN SlotsStatement(declaredSlots)
                              ELSE Absent ]
  /\ UNCHANGED <<templateVars, registryVars, template, position, declaredSlots,
                 diagnostics>>

SlotNext == ValidateSlot \/ Generate

SlotSpec == SlotInit /\ [][SlotNext]_vars

(***************************************************************************)
(* The patch of the global custom element registry (global-registry.ts).   *)
(* A definition record is named by its UserCtor, of which there is one per *)
(* constructor; a PivotCtor is named by the tag it was created for.        *)
(***************************************************************************)
\* names given to define, get, whenDefined and the helper
Names == {"x-a", "X-A", "x-b", "xb"}

ToLowerCase(name) == IF name = "X-A" THEN "x-a" ELSE name

\* a valid custom element name: lower case, with a hyphen
ValidName(name) == name \in {"x-a", "x-b"}

\* the classes declared after the patch: they extend the patched HTMLElement
Ctors == {"A", "B"}

\* a class declared before the patch: it extends the native HTMLElement
EarlyCtors == {"E"}

\* constructor.prototype.constructor is a function
IsConstructor(constructor) == constructor \in Ctors \cup EarlyCtors

Has(map, key) == key \in DOMAIN map

MapGet(map, key) == IF key \in DOMAIN map THEN map[key] ELSE "undefined"

Put(map, key, value) ==
  [k \in DOMAIN map \cup {key} |-> IF k = key THEN value ELSE map[k]]

Delete(map, key) == [k \in DOMAIN map \ {key} |-> map[k]]

\* the collections a call on the registry can change
Registry ==
  [ definitionsByTag |-> definitionsByTag,
    definitionsByClass |-> definitionsByClass,
    definitionForConstructor |-> definitionForConstructor,
    pivotCtorByTag |-> pivotCtorByTag,
    definitionPivotCtor |-> definitionPivotCtor,
    nativeRegistry |-> nativeRegistry,
    awaitingUpgrade |-> awaitingUpgrade,
    upgradingInstance |-> upgradingInstance,
    pendingRegistryForElement |-> pendingRegistryForElement,
    definitionForElement |-> definitionForElement,
    elements |-> elements,
    document |-> document,
    definedPromises |-> definedPromises,
    thrown |-> "none" ]

Becomes(r) ==
  /\ definitionsByTag' = r.definitionsByTag
  /\ definitionsByClass' = r.definitionsByClass
  /\ definitionForConstructor' = r.definitionForConstructor
  /\ pivotCtorByTag' = r.pivotCtorByTag
  /\ definitionPivotCtor' = r.definitionPivotCtor
  /\ nativeRegistry' = r.nativeRegistry
  /\ awaitingUpgrade' = r.awaitingUpgrade
  /\ upgradingInstance' = r.upgradingInstance
  /\ pendingRegistryForElement' = r.pendingRegistryForElement
  /\ definitionForElement' = r.definitionForElement
  /\ elements' = r.elements
  /\ document' = r.document
  /\ definedPromises' = r.definedPromises

\* the record of the constructor is made and cached on first use
getDefinitionForConstructor(r, constructor) ==
  [r EXCEPT !.definitionForConstructor = @ \cup {constructor}]

createPivotingClass(r, tagName, registeredDefinition) ==
  [r EXCEPT !.pivotCtorByTag = Put(@, tagName, registeredDefinition)]

\* the attribute names an element is given
Attributes == {"title", "foo", "bar"}

\* constructor.observedAttributes of the user classes
observedAttributes(constructor) ==
  IF constructor = "A" THEN {"title", "foo"}
  ELSE IF constructor = "B" THEN {"title", "bar"}
  ELSE {"title"}

\* the record of a user class: both classes have an attributeChangedCallback
createDefinitionRecord(constructor) ==
  [ UserCtor |-> constructor,
    attributeChangedCallback |-> IF IsConstructor(constructor) THEN "function" ELSE "undefined",
    observedAttributes |-> observedAttributes(constructor) ]

\* no attributeChangedCallback of the user class has run
NoCallbacks == [name \in Attributes |-> 0]

\* an element the constructor of no class has run on yet
NewElement(tagName) ==
  [ tag |-> tagName, connected |-> FALSE, pivot |-> FALSE, upgrades |-> 0,
    delegated |-> "none", attributes |-> {}, offset |-> {},
    attributeChanged |-> NoCallbacks, failed |-> FALSE ]

\* attributeChangedCallback.call(instance, name, ...) of the user class
Invoke(r, instance, name) ==
  [r EXCEPT !.elements[instance].attributeChanged[name] = @ + 1]

getObservedAttributesOffset(registeredDefinition, instancedDefinition) ==
  { x \in createDefinitionRecord(registeredDefinition).observedAttributes :
      x \notin createDefinitionRecord(instancedDefinition).observedAttributes }

\* setAttribute and removeAttribute are defined on the instance when the
\* offset has a name
patchAttributes(r, instance, registeredDefinition, instancedDefinition) ==
  LET offset == getObservedAttributesOffset(registeredDefinition, instancedDefinition)
  IN  IF \/ createDefinitionRecord(instancedDefinition).observedAttributes = {}
         \/ createDefinitionRecord(instancedDefinition).attributeChangedCallback = "undefined"
      THEN r
      ELSE IF offset = {} THEN r
      ELSE [r EXCEPT !.elements[instance].offset = offset]

\* offset.forEach: the callback runs for each name of the offset the
\* instance has an attribute of
RECURSIVE Replay(_, _, _)
Replay(r, instance, names) ==
  IF names = {} THEN r
  ELSE LET name == CHOOSE n \in names : TRUE
       IN  Replay(IF name \in r.elements[instance].attributes
                  THEN Invoke(r, instance, name) ELSE r,
                  instance, names \ {name})

\* new UserCtor() of a class that extends the native HTMLElement throws a
\* TypeError, and so does the second attempt of the catch block
IllegalConstructor(UserCtor) == UserCtor \in EarlyCtors

\* the instance takes the definition it is upgraded with; r.thrown tells
\* what the call throws
internalUpgrade(r, instance, registeredDefinition, instancedDefinition) ==
  LET r1 == [r EXCEPT !.definitionForElement = Put(@, instance, instancedDefinition)]
      r2 == IF instancedDefinition # registeredDefinition
            THEN patchAttributes(r1, instance, registeredDefinition, instancedDefinition)
            ELSE r1
      r3 == [r2 EXCEPT !.elements[instance].upgrades = @ + 1,
                       !.upgradingInstance = NoInstance]
  IN  IF IllegalConstructor(instancedDefinition)
      THEN [r2 EXCEPT !.thrown = "TypeError",
                      !.upgradingInstance = [NoInstance EXCEPT !.defined = TRUE,
                                                               !.instance = instance]]
      ELSE IF \/ createDefinitionRecord(instancedDefinition).observedAttributes = {}
              \/ createDefinitionRecord(instancedDefinition).attributeChangedCallback = "undefined"
      THEN r3
      ELSE Replay(r3, instance,
                  getObservedAttributesOffset(registeredDefinition, instancedDefinition))

\* what a constructor that has thrown leaves: the element is no custom
\* element; an element that is upgraded (it is connected) keeps what
\* internalUpgrade did to it; an instance under construction is dropped,
\* and createElement returns a plain element; upgradingInstance keeps
\* the instance in both cases
Constructed(before, after, instance) ==
  IF after.thrown = "none" THEN after
  ELSE IF before.elements[instance].connected
  THEN [after EXCEPT !.elements[instance].pivot = FALSE,
                     !.elements[instance].failed = TRUE]
  ELSE [before EXCEPT !.elements[instance].failed = TRUE,
                      !.thrown = after.thrown,
                      !.upgradingInstance =
                         [ defined |-> after.upgradingInstance.defined,
                           instance |-> 0,
                           tag |-> after.elements[instance].tag,
                           definition |-> MapGet(after.definitionForElement, instance),
                           offset |-> after.elements[instance].offset ]]

\* the constructor of the PivotCtor of tagName, run on instance
PivotCtor(r, instance, tagName, UserCtor) ==
  LET r1 == IF UserCtor # "undefined" THEN getDefinitionForConstructor(r, UserCtor) ELSE r
      definition == IF UserCtor # "undefined" THEN UserCtor
                    ELSE MapGet(r.definitionsByTag, tagName)
      r2 == [r1 EXCEPT !.elements[instance].pivot = TRUE]
  IN  Constructed(r1,
                  IF definition # "undefined"
                  THEN internalUpgrade(r2, instance, r.pivotCtorByTag[tagName], definition)
                  ELSE [r2 EXCEPT !.pendingRegistryForElement =
                                     Put(@, instance, r.pivotCtorByTag[tagName])],
                  instance)

\* a Set is the sequence of its values in the order they were added
SetAdd(set, value) ==
  IF \E i \in DOMAIN set : set[i] = value THEN set ELSE Append(set, value)

SetDelete(set, value) == SelectSeq(set, LAMBDA v : v # value)

connectedCallback(r, instance) ==
  LET tagName == r.elements[instance].tag
      awaiting == IF Has(r.awaitingUpgrade, tagName) THEN r.awaitingUpgrade[tagName] ELSE <<>>
  IN  IF Has(r.definitionForElement, instance)
      THEN [r EXCEPT !.elements[instance].delegated = "connectedCallback"]
      ELSE [r EXCEPT !.awaitingUpgrade = Put(@, tagName, SetAdd(awaiting, instance))]

disconnectedCallback(r, instance) ==
  LET tagName == r.elements[instance].tag
  IN  IF Has(r.definitionForElement, instance)
      THEN [r EXCEPT !.elements[instance].delegated = "disconnectedCallback"]
      ELSE IF Has(r.awaitingUpgrade, tagName)
      THEN [r EXCEPT !.awaitingUpgrade[tagName] = SetDelete(@, instance)]
      ELSE r

adoptedCallback(r, instance) ==
  IF Has(r.definitionForElement, instance)
  THEN [r EXCEPT !.elements[instance].delegated = "adoptedCallback"]
  ELSE r

\* attributeChangedCallback of the PivotCtor of the instance
attributeChangedCallback(r, instance, name) ==
  LET definition == MapGet(r.definitionForElement, instance)
      registeredDefinition == r.pivotCtorByTag[r.elements[instance].tag]
  IN  IF definition = "undefined" THEN r
      ELSE IF \/ registeredDefinition = definition
              \/ name \in createDefinitionRecord(definition).observedAttributes
      THEN IF createDefinitionRecord(definition).attributeChangedCallback = "undefined"
           THEN r ELSE Invoke(r, instance, name)
      ELSE r

\* the browser reports a changed attribute of a custom element to the
\* class it was defined with, for the names of its observedAttributes
Reaction(r, instance, name) ==
  LET tagName == r.elements[instance].tag
  IN  IF /\ r.elements[instance].pivot
         /\ name \in createDefinitionRecord(r.pivotCtorByTag[tagName]).observedAttributes
      THEN attributeChangedCallback(r, instance, name)
      ELSE r

nativeSetAttribute(r, instance, name) ==
  Reaction([r EXCEPT !.elements[instance].attributes = @ \cup {name}], instance, name)

\* nothing changes and nothing is reported when the attribute is absent
nativeRemoveAttribute(r, instance, name) ==
  IF name \in r.elements[instance].attributes
  THEN Reaction([r EXCEPT !.elements[instance].attributes = @ \ {name}], instance, name)
  ELSE r

\* instance.setAttribute(name, value): the function patchAttributes
\* defined on the instance, or the one of the prototype
setAttribute(r, instance, name) ==
  IF name \in r.elements[instance].offset
  THEN Invoke(nativeSetAttribute(r, instance, name), instance, name)
  ELSE nativeSetAttribute(r, instance, name)

removeAttribute(r, instance, name) ==
  IF name \in r.elements[instance].offset
  THEN Invoke(nativeRemoveAttribute(r, instance, name), instance, name)
  ELSE nativeRemoveAttribute(r, instance, name)

\* the browser reports the attributes the upgraded element already has
RECURSIVE Reactions(_, _, _)
Reactions(r, instance, names) ==
  IF names = {} THEN r
  ELSE LET name == CHOOSE n \in names : TRUE
       IN  Reactions(Reaction(r, instance, name), instance, names \ {name})

\* after the constructor the browser runs attributeChangedCallback for the
\* observed attributes the element has, then connectedCallback; an
\* exception of the constructor is reported, not thrown, and the callbacks
\* do not run
Reacted(r, instance) ==
  IF r.thrown # "none" THEN [r EXCEPT !.thrown = "none"]
  ELSE connectedCallback(Reactions(r, instance, r.elements[instance].attributes),
                         instance)

\* the browser upgrades a connected element of a defined name
Upgrade(r, instance, tagName) ==
  Reacted(PivotCtor(r, instance, tagName, "undefined"), instance)

\* the browser upgrades the elements in tree order
RECURSIVE UpgradeAll(_, _, _)
UpgradeAll(r, tagName, instances) ==
  IF instances = <<>> THEN r
  ELSE UpgradeAll(Upgrade(r, Head(instances), tagName), tagName, Tail(instances))

\* what nativeDefine throws for a name that is not valid or already
\* defined, "none" if nothing
nativeDefineError(r, tagName) ==
  IF ~ValidName(tagName) THEN "SyntaxError"
  ELSE IF tagName \in r.nativeRegistry THEN "NotSupportedError"
  ELSE "none"

\* nativeDefine.call(nativeRegistry, tagName, PivotCtor): the connected
\* elements of that name which are no custom elements yet are upgraded
nativeDefine(r, tagName) ==
  UpgradeAll([r EXCEPT !.nativeRegistry = @ \cup {tagName}], tagName,
             SelectSeq(r.document,
                       LAMBDA e : /\ r.elements[e].tag = tagName
                                  /\ ~r.elements[e].pivot
                                  /\ ~r.elements[e].failed))

\* the elements waiting for a global definition of tagName are upgraded in
\* the order they were added, up to the first internalUpgrade that throws
RECURSIVE UpgradeAwaiting(_, _, _)
UpgradeAwaiting(r, awaiting, definition) ==
  IF awaiting = <<>> \/ r.thrown # "none" THEN r
  ELSE LET element == Head(awaiting)
           registeredDefinition == MapGet(r.pendingRegistryForElement, element)
           r1 == IF registeredDefinition # "undefined"
                 THEN internalUpgrade(
                        [r EXCEPT !.pendingRegistryForElement = Delete(@, element)],
                        element, registeredDefinition, definition)
                 ELSE r
       IN  UpgradeAwaiting(r1, Tail(awaiting), definition)

\* !isUndefined(definitionsByClass.get(constructor))
constructorUsed_never(r, constructor) == FALSE

constructorUsed(r, constructor) == Has(r.definitionsByClass, constructor)

\* what define throws before it changes a collection, "none" if nothing
defineCheck_constructorFirst(r, tagName, constructor, ext) ==
  IF ext THEN "extends is not supported"
  ELSE IF ~IsConstructor(constructor) THEN "TypeError"
  ELSE IF constructorUsed(r, constructor) THEN "constructor already used"
  ELSE IF Has(r.definitionsByTag, tagName) THEN "name already used"
  ELSE "none"

defineCheck(r, tagName, constructor, ext) ==
  IF ext THEN "extends is not supported"
  ELSE IF Has(r.definitionsByTag, tagName) THEN "name already used"
  ELSE IF ~IsConstructor(constructor) THEN "TypeError"
  ELSE IF constructorUsed(r, constructor) THEN "constructor already used"
  ELSE "none"

\* the end of define: the whenDefined callbacks are flushed, unless an
\* internalUpgrade has thrown
Flushed(r, tagName, constructor) ==
  IF r.thrown # "none"
  THEN [r |-> [r EXCEPT !.thrown = "none"], result |-> r.thrown]
  ELSE IF tagName \in definedResolvers /\ r.definedPromises[tagName] = "pending"
  THEN [r |-> [r EXCEPT !.definedPromises[tagName] = constructor], result |-> "ok"]
  ELSE [r |-> r, result |-> "ok"]

\* customElements.define(name, constructor, { extends }) as patched: the
\* registry it leaves and what it throws, "ok" when it returns
define(r, name, constructor, ext) ==
  LET tagName == ToLowerCase(name)
      thrown == defineCheck(r, tagName, constructor, ext)
      r1 == getDefinitionForConstructor(r, constructor)
      r2 == [r1 EXCEPT !.definitionsByTag = Put(@, tagName, constructor),
                       !.definitionsByClass = Put(@, constructor, constructor)]
      r3 == createPivotingClass(r2, tagName, constructor)
      r4 == IF Has(r2.pivotCtorByTag, tagName) THEN r2 ELSE nativeDefine(r3, tagName)
      r5 == [r4 EXCEPT !.definitionPivotCtor = Put(@, constructor, tagName)]
      r6 == IF Has(r5.awaitingUpgrade, tagName)
            THEN UpgradeAwaiting([r5 EXCEPT !.awaitingUpgrade = Delete(@, tagName)],
                                 r5.awaitingUpgrade[tagName], constructor)
            ELSE r5
  IN  IF thrown = "constructor already used" THEN [r |-> r1, result |-> thrown]
      ELSE IF thrown # "none" THEN [r |-> r, result |-> thrown]
      ELSE IF ~Has(r2.pivotCtorByTag, tagName) /\ nativeDefineError(r3, tagName) # "none"
      THEN [r |-> r3, result |-> nativeDefineError(r3, tagName)]
      ELSE Flushed(r6, tagName, constructor)

\* the helper patchCustomElementRegistry returns, as LWC calls it
definePivotCustomElement(r, name, constructor) ==
  LET tagName == ToLowerCase(name)
      r1 == getDefinitionForConstructor(r, constructor)
      r2 == createPivotingClass(r1, tagName, constructor)
      r3 == [r2 EXCEPT !.definitionsByTag = Put(@, tagName, constructor),
                       !.definitionsByClass = Put(@, constructor, constructor)]
  IN  IF Has(r.pivotCtorByTag, tagName) THEN [r |-> r, result |-> "ok"]
      ELSE IF ~IsConstructor(constructor) THEN [r |-> r, result |-> "TypeError"]
      ELSE IF nativeDefineError(r3, tagName) # "none"
      THEN [r |-> r3, result |-> nativeDefineError(r3, tagName)]
      ELSE [r |-> nativeDefine(r3, tagName), result |-> "ok"]

Outcome(op, name, constructor, ext, result) ==
  [op |-> op, name |-> name, ctor |-> constructor, ext |-> ext, result |-> result]

\* !!nativeRegistry[registryPatchedSymbol]
alreadyPatched_never == FALSE

alreadyPatched == patched

\* patchCustomElementRegistry()
Patch ==
  /\ IF alreadyPatched
     THEN /\ last' = Outcome("patch", "", "undefined", FALSE, "called twice")
          /\ UNCHANGED <<patched, replaced>>
     ELSE /\ patched' = TRUE
          /\ replaced' = replaced + 1
          /\ last' = Outcome("patch", "", "undefined", FALSE, "ok")
  /\ UNCHANGED <<templateVars, slotVars, definitionsByTag, definitionsByClass,
                 definitionForConstructor, pivotCtorByTag, definitionPivotCtor,
                 nativeRegistry, awaitingUpgrade, upgradingInstance, document,
                 pendingRegistryForElement, definitionForElement, elements,
                 definedPromises, definedResolvers, promises, defined, calls>>

\* customElements.define(name, constructor, options)
Define(name, constructor, ext) ==
  LET d == define(Registry, name, constructor, ext)
  IN  /\ patched
      /\ calls < MaxCalls
      /\ Becomes(d.r)
      /\ last' = Outcome("define", name, constructor, ext, d.result)
      /\ defined' = IF d.result = "ok" THEN Put(defined, name, constructor) ELSE defined
      /\ calls' = calls + 1
      /\ UNCHANGED <<templateVars, slotVars, patched, replaced, definedResolvers,
                     promises>>

\* LWC registers a tag name through the helper
Register(name, constructor) ==
  LET d == definePivotCustomElement(Registry, name, constructor)
  IN  /\ patched
      /\ calls < MaxCalls
      /\ Becomes(d.r)
      /\ last' = Outcome("register", name, constructor, FALSE, d.result)
      /\ calls' = calls + 1
      /\ UNCHANGED <<templateVars, slotVars, patched, replaced, definedResolvers,
                     promises, defined>>

\* customElements.get(name) as patched
get(name) ==
  IF name \in nativeRegistry THEN MapGet(definitionsByTag, name) ELSE "undefined"

Get(name) ==
  /\ patched
  /\ last' = Outcome("get", name, "undefined", FALSE, get(name))
  /\ UNCHANGED <<templateVars, slotVars, patched, replaced, definitionsByTag,
                 definitionsByClass, definitionForConstructor, pivotCtorByTag,
                 definitionPivotCtor, nativeRegistry, awaitingUpgrade, upgradingInstance, document,
                 pendingRegistryForElement, definitionForElement, elements,
                 definedPromises, definedResolvers, promises, defined, calls>>

\* customElements.whenDefined(name) as patched returns
\* nativeWhenDefined(name).then(...): the native promise is rejected for a
\* name that is not valid and waits for the native definition otherwise
WhenDefined(name) ==
  /\ patched
  /\ calls < MaxCalls
  /\ calls' = calls + 1
  /\ promises' = Append(promises,
                    [ name |-> name,
                      state |-> IF ValidName(name) THEN "waiting" ELSE "rejected",
                      value |-> "undefined" ])
  /\ last' = Outcome("whenDefined", name, "undefined", FALSE, "promise")
  /\ UNCHANGED <<templateVars, slotVars, patched, replaced, definitionsByTag,
                 definitionsByClass, definitionForConstructor, pivotCtorByTag,
                 definitionPivotCtor, nativeRegistry, awaitingUpgrade, upgradingInstance, document,
                 pendingRegistryForElement, definitionForElement, elements,
                 definedPromises, definedResolvers, defined>>

\* a promise job of the promise whenDefined returned can run: the native
\* promise is resolved, or the promise the callback returned is settled
JobReady(p) ==
  IF p.state = "waiting" THEN p.name \in nativeRegistry
  ELSE p.state = "chained" /\ definedPromises[p.name] # "pending"

\* the promise job: the callback given to then(), or the adoption of the
\* settled promise the callback returned
PromiseJob(i) ==
  LET p == promises[i]
      definition == MapGet(definitionsByTag, p.name)
  IN  /\ i \in 1..Len(promises)
      /\ JobReady(p)
      /\ IF p.state = "chained"
         THEN /\ promises' = [promises EXCEPT ![i].state = "resolved",
                                              ![i].value = definedPromises[p.name]]
              /\ UNCHANGED <<definedPromises, definedResolvers>>
         ELSE IF ~Has(definedPromises, p.name) /\ definition # "undefined"
         THEN /\ promises' = [promises EXCEPT ![i].state = "resolved",
                                              ![i].value = definition]
              /\ UNCHANGED <<definedPromises, definedResolvers>>
         ELSE /\ promises' = [promises EXCEPT ![i].state = "chained"]
              /\ definedPromises' = IF Has(definedPromises, p.name) THEN definedPromises
                                    ELSE Put(definedPromises, p.name, "pending")
              /\ definedResolvers' = IF Has(definedPromises, p.name) THEN definedResolvers
                                     ELSE definedResolvers \cup {p.name}
      /\ UNCHANGED <<templateVars, slotVars, patched, replaced, definitionsByTag,
                     definitionsByClass, definitionForConstructor, pivotCtorByTag,
                     definitionPivotCtor, nativeRegistry, awaitingUpgrade, upgradingInstance, document,
                     pendingRegistryForElement, definitionForElement, elements,
                     defined, last, calls>>

\* the tag names the browser makes elements of
Tags == { ToLowerCase(name) : name \in { n \in Names : ValidName(ToLowerCase(n)) } }

\* the names a PivotCtor can be made for
PivotTags == { ToLowerCase(name) : name \in Names }

\* document.createElement(tagName), or the parser: with a native definition
\* of the name the browser runs the PivotCtor; an exception of the
\* constructor is reported and the element returned is a plain one
CreateElement(tagName) ==
  LET e == Cardinality(DOMAIN elements) + 1
      r == [Registry EXCEPT !.elements =
              Put(@, e, NewElement(tagName))]
  IN  /\ patched
      /\ calls < MaxCalls
      /\ calls' = calls + 1
      /\ last' = Outcome("createElement", tagName, "undefined", FALSE, "element")
      /\ Becomes(IF tagName \in nativeRegistry
                 THEN [PivotCtor(r, e, tagName, "undefined") EXCEPT !.thrown = "none"]
                 ELSE r)
      /\ UNCHANGED <<templateVars, slotVars, patched, replaced, definedResolvers,
                     promises, defined>>

\* the element is inserted into the document, as the last child
Connect(e) ==
  LET r == [Registry EXCEPT !.elements[e].connected = TRUE,
                            !.document = Append(@, e)]
      tagName == elements[e].tag
  IN  /\ e \in DOMAIN elements
      /\ ~elements[e].connected
      /\ Becomes(IF elements[e].pivot THEN connectedCallback(r, e)
                 ELSE IF tagName \in nativeRegistry /\ ~elements[e].failed
                 THEN Upgrade(r, e, tagName)
                 ELSE r)
      /\ UNCHANGED <<templateVars, slotVars, patched, replaced, definedResolvers,
                     promises, defined, last, calls>>

\* the element is removed from the document
Disconnect(e) ==
  LET r == [Registry EXCEPT !.elements[e].connected = FALSE,
                            !.document = SelectSeq(@, LAMBDA child : child # e)]
  IN  /\ e \in DOMAIN elements
      /\ elements[e].connected
      /\ Becomes(IF elements[e].pivot THEN disconnectedCallback(r, e) ELSE r)
      /\ UNCHANGED <<templateVars, slotVars, patched, replaced, definedResolvers,
                     promises, defined, last, calls>>

\* document.adoptNode(e) of another document: the element leaves its
\* document, and the browser runs disconnectedCallback, when it was
\* connected, and adoptedCallback on a custom element
Adopt(e) ==
  LET r == [Registry EXCEPT !.elements[e].connected = FALSE,
                            !.document = SelectSeq(@, LAMBDA child : child # e)]
  IN  /\ e \in DOMAIN elements
      /\ Becomes(IF elements[e].pivot
                 THEN adoptedCallback(IF elements[e].connected
                                      THEN disconnectedCallback(r, e) ELSE r, e)
                 ELSE r)
      /\ UNCHANGED <<templateVars, slotVars, patched, replaced, definedResolvers,
                     promises, defined, last, calls>>

\* new PivotCtor(UserCtor) returns the element e, or throws and there is
\* no element
Made(r, e) ==
  IF r.thrown = "none" THEN [r |-> r, result |-> "element", instance |-> e]
  ELSE [r |-> [r EXCEPT !.elements = Delete(@, e)], result |-> r.thrown, instance |-> 0]

\* new PivotCtor(UserCtor) with the PivotCtor of tagName; super() throws
\* for a class the native registry has no definition with
Construct(r, tagName, UserCtor) ==
  LET e == Cardinality(DOMAIN r.elements) + 1
  IN  IF tagName \notin r.nativeRegistry
      THEN [r |-> r, result |-> "TypeError", instance |-> 0]
      ELSE Made(PivotCtor([r EXCEPT !.elements = Put(@, e, NewElement(tagName))],
                          e, tagName, UserCtor), e)

\* LWC makes an element of its class: new PivotCtor(UserCtor), with the
\* PivotCtor the helper returned for tagName
New(tagName, UserCtor) ==
  LET d == Construct(Registry, tagName, UserCtor)
  IN  /\ patched
      /\ calls < MaxCalls
      /\ Has(pivotCtorByTag, tagName)
      /\ calls' = calls + 1
      /\ last' = Outcome("new", tagName, UserCtor, FALSE, d.result)
      /\ Becomes(d.r)
      /\ UNCHANGED <<templateVars, slotVars, patched, replaced, definedResolvers,
                     promises, defined>>

\* the patched window.HTMLElement, called as super() by the constructor
\* of UserCtor: the instance internalUpgrade left is returned, and is
\* an element from now on; or the PivotCtor of the definition of the
\* class makes one
HTMLElement(r, UserCtor) ==
  LET instance == r.upgradingInstance
      e == Cardinality(DOMAIN r.elements) + 1
      tagName == MapGet(r.definitionPivotCtor, UserCtor)
  IN  IF instance.defined
      THEN IF instance.instance > 0
           THEN [ r |-> [r EXCEPT !.upgradingInstance = NoInstance],
                  result |-> "element", instance |-> instance.instance ]
           ELSE [ r |-> [r EXCEPT !.upgradingInstance = NoInstance,
                                  !.elements = Put(@, e, [NewElement(instance.tag) EXCEPT
                                                            !.pivot = TRUE,
                                                            !.offset = instance.offset]),
                                  !.definitionForElement = Put(@, e, instance.definition)],
                  result |-> "element", instance |-> e ]
      ELSE IF ~Has(r.definitionsByClass, UserCtor) \/ tagName = "undefined"
      THEN [r |-> r, result |-> "TypeError", instance |-> 0]
      ELSE Construct(r, tagName, UserCtor)

\* the constructor of the user class runs on what super() returned
Ran(d) ==
  IF d.result # "element" THEN [r |-> d.r, result |-> d.result]
  ELSE [ r |-> [d.r EXCEPT !.elements[d.instance].upgrades = @ + 1],
         result |-> "element" ]

\* new UserCtor(): a class declared before the patch extends the native
\* HTMLElement, which throws for a class with no native definition
newUserCtor(r, UserCtor) ==
  IF IllegalConstructor(UserCtor) THEN [r |-> r, result |-> "TypeError"]
  ELSE Ran(HTMLElement(r, UserCtor))

\* the user makes an element of a class: new UserCtor()
NewUser(UserCtor) ==
  LET d == newUserCtor(Registry, UserCtor)
  IN  /\ patched
      /\ calls < MaxCalls
      /\ calls' = calls + 1
      /\ last' = Outcome("newUser", "", UserCtor, FALSE, d.result)
      /\ Becomes(d.r)
      /\ UNCHANGED <<templateVars, slotVars, patched, replaced, definedResolvers,
                     promises, defined>>

\* the callbacks the call is to be seen by are counted from zero
Fresh(e) == [Registry EXCEPT !.elements[e].attributeChanged = NoCallbacks]

\* element.setAttribute(name, value)
SetAttribute(e, name) ==
  /\ e \in DOMAIN elements
  /\ Becomes(setAttribute(Fresh(e), e, name))
  /\ UNCHANGED <<templateVars, slotVars, patched, replaced, definedResolvers,
                 promises, defined, last, calls>>

\* element.removeAttribute(name)
RemoveAttribute(e, name) ==
  /\ e \in DOMAIN elements
  /\ Becomes(removeAttribute(Fresh(e), e, name))
  /\ UNCHANGED <<templateVars, slotVars, patched, replaced, definedResolvers,
                 promises, defined, last, calls>>

RegistryInit ==
  /\ Loaded("styleImportant")
  /\ styleText = styleImportant_authored
  /\ styleDecls = StyleDecls(styleImportant_authored)
  /\ NoTemplate
  /\ Unpatched

RegistryNext ==
  \/ Patch
  \/ \E name \in Names, constructor \in Ctors \cup EarlyCtors \cup {"undefined"}, ext \in BOOLEAN :
       Define(name, constructor, ext)
  \/ \E name \in Names, constructor \in Ctors \cup EarlyCtors \cup {"undefined"} :
       Register(name, constructor)
  \/ \E name \in Names : Get(name)
  \/ \E name \in Names : WhenDefined(name)
  \/ \E i \in 1..MaxCalls : PromiseJob(i)
  \/ \E tagName \in Tags : CreateElement(tagName)
  \/ \E e \in 1..MaxCalls : Connect(e)
  \/ \E e \in 1..MaxCalls : Disconnect(e)
  \/ \E e \in 1..MaxCalls : Adopt(e)

RegistrySpec == RegistryInit /\ [][RegistryNext]_vars

\* the registry with the elements the browser, LWC and the user make
ElementNext ==
  \/ Patch
  \/ \E name \in Names, constructor \in Ctors \cup EarlyCtors \cup {"undefined"}, ext \in BOOLEAN :
       Define(name, constructor, ext)
  \/ \E name \in Names, constructor \in Ctors \cup EarlyCtors \cup {"undefined"} :
       Register(name, constructor)
  \/ \E tagName \in Tags : CreateElement(tagName)
  \/ \E e \in 1..MaxCalls : Connect(e)
  \/ \E e \in 1..MaxCalls : Disconnect(e)
  \/ \E e \in 1..MaxCalls : Adopt(e)
  \/ \E tagName \in PivotTags, UserCtor \in Ctors \cup EarlyCtors : New(tagName, UserCtor)
  \/ \E UserCtor \in Ctors \cup EarlyCtors : NewUser(UserCtor)

ElementSpec == RegistryInit /\ [][ElementNext]_vars

\* the registry with the elements LWC makes and their attributes
AttributeNext ==
  \/ Patch
  \/ \E name \in Names, constructor \in Ctors \cup EarlyCtors : Register(name, constructor)
  \/ \E tagName \in Tags : CreateElement(tagName)
  \/ \E tagName \in PivotTags, UserCtor \in Ctors \cup EarlyCtors : New(tagName, UserCtor)
  \/ \E e \in 1..MaxCalls : Connect(e)
  \/ \E e \in 1..MaxCalls, name \in Attributes : SetAttribute(e, name)
  \/ \E e \in 1..MaxCalls, name \in Attributes : RemoveAttribute(e, name)

AttributeSpec == RegistryInit /\ [][AttributeNext]_vars

(***************************************************************************)
(* Reading a render result.                                                *)
(***************************************************************************)
\* the virtual nodes of a value, parents before children, in document order
RECURSIVE VNodeSeq(_), VNodeSeqAll(_)
VNodeSeqAll(list) ==
  IF list = <<>> THEN <<>> ELSE VNodeSeq(Head(list)) \o VNodeSeqAll(Tail(list))

VNodeSeq(v) ==
  CASE v.t = "array" -> VNodeSeqAll(v.elems)
    [] v.t = "vnode" -> <<v>> \o VNodeSeq(v.children)
    [] OTHER -> <<>>

VNodes(v) == Range(VNodeSeq(v))

Distinct(seq) == \A i, j \in 1..Len(seq) : i # j => seq[i] # seq[j]

Rendered == renders > 0

(***************************************************************************)
(* C1  Static-hoist reuse.  The creation expression of every hoisted       *)
(* static fragment runs at most once however often tmpl is called, every   *)
(* static node a render returns carries that one instance, and a render    *)
(* never replaces a filled $fragmentN cache.                                *)
(***************************************************************************)
C1_StaticHoistReuse ==
  /\ [](/\ \A n \in DOMAIN created : created[n] <= 1
        /\ \A v \in VNodes(out) :
             v.type = "static" =>
               /\ v.fragment = FragmentInstance(v.fragment.of, 1)
               /\ \E f \in DOMAIN fragment : fragment[f] = v.fragment)
  /\ [][\A f \in DOMAIN fragment :
          Truthy(fragment[f]) => fragment'[f] = fragment[f]]_vars

C1_Witness ==
  /\ renders >= 2
  /\ DOMAIN fragment # {}
  /\ \A f \in DOMAIN fragment : Truthy(fragment[f])
  /\ \E v \in VNodes(out) : v.type = "static"

(***************************************************************************)
(* C2  Key uniqueness.  When the items of the iterated collection have     *)
(* pairwise distinct ids, all keys that api_key produced in one render are *)
(* pairwise distinct: the keys of one structural position across the       *)
(* items, and the keys of different positions for the same item.           *)
(***************************************************************************)
ItemsOf(component) ==
  IF GetProp(component, "items").t = "array" THEN GetProp(component, "items").elems
  ELSE <<>>

\* the keys made by api_key, one per keyed node, in document order
IterationKeys(v) ==
  LET keyed == SelectSeq(VNodeSeq(v),
                 LAMBDA n : n.type = "element" /\ n.key.t = "str")
  IN  [ i \in 1..Len(keyed) |-> keyed[i].key.s ]

C2_KeyUniqueness ==
  (Rendered /\ prog = "staticSiblings" /\ Distinct(ItemsOf(cmp))) =>
    /\ Distinct(IterationKeys(out))
    /\ Len(IterationKeys(out)) =
         (IF Truthy(GetProp(cmp, "isTrue")) THEN 3 ELSE 1) * Len(ItemsOf(cmp))

C2_Witness ==
  /\ Rendered /\ prog = "staticSiblings"
  /\ Len(ItemsOf(cmp)) = 2 /\ Distinct(ItemsOf(cmp))
  /\ Truthy(GetProp(cmp, "isTrue"))
  /\ Len(IterationKeys(out)) = 6

(***************************************************************************)
(* C3  Slot default fallback.  The slot node a template with a slot        *)
(* returns holds exactly the default content when $slotset has no content  *)
(* for the declared slot name, and exactly the caller's content otherwise. *)
(***************************************************************************)
DeclaresSlot(p) == Program(p).slots.t = "array"

DeclaredSlotName(p) == Program(p).slots.elems[1].s

\* the api_slot call of a template that declares a slot
SlotCall(p) == Program(p).body.elems[1].args[3].elems[1]

SlotNode(v) == v.elems[1].children.elems[1]

Supplied(slots, name) ==
  IF slots.t = "undefined" THEN Undefined ELSE GetProp(slots, name)

HasContent(slots, name) ==
  /\ Supplied(slots, name).t = "array"
  /\ Supplied(slots, name).elems # <<>>

\* the default content: the third argument of api_slot, as rendered
DefaultContent ==
  Eval(SlotCall(prog).args[3], Env(prog, hoisted, fragment, created, cmp, slotset))

C3_SlotDefaultFallback ==
  (Rendered /\ DeclaresSlot(prog)) =>
    /\ SlotNode(out).sel = Str("slot")
    /\ HasContent(slotset, DeclaredSlotName(prog)) =>
         SlotNode(out).children = Supplied(slotset, DeclaredSlotName(prog))
    /\ ~HasContent(slotset, DeclaredSlotName(prog)) =>
         /\ SlotNode(out).children = DefaultContent
         /\ Len(DefaultContent.elems) = 1
         /\ \A i \in 1..2 : CallerContent(i) \notin VNodes(out)

C3_WitnessDefault ==
  /\ Rendered /\ prog = "namedSlot"
  /\ HasContent(slotset, "") /\ ~HasContent(slotset, "test")
  /\ SlotNode(out).children.elems[1].type = "static"

(***************************************************************************)
(* Reading the text of a generated program.                                *)
(***************************************************************************)
Body == Program(prog).body

IsHoisted(name) == name \in Declared(Program(prog).hoisted)

IsStc(name) == name \in Declared(Program(prog).stc)

\* an expression without a binding: literals, constants of the module,
\* hoisted values and the render API calls that build plain nodes
RECURSIVE StaticExpr(_), StaticAll(_)
StaticAll(es) == es = <<>> \/ (StaticExpr(Head(es)) /\ StaticAll(Tail(es)))

StaticExpr(e) ==
  CASE e.t \in {"num", "str", "bool", "null", "template", "lazy"} -> TRUE
    [] e.t = "array" -> StaticAll(e.elems)
    [] e.t = "object" -> StaticAll([ i \in 1..Len(e.props) |-> e.props[i].val ])
    [] e.t = "ref" ->
         \/ IsHoisted(e.name)
         \/ IsStc(e.name) /\ StaticExpr(InitOf(Program(prog).stc, e.name))
    [] e.t = "call" ->
         /\ e.fn \in {"api_text", "api_comment", "api_element", "api_set_owner",
                      "api_static_fragment"}
         /\ StaticAll(e.args)
    [] OTHER -> FALSE

\* the api_element calls of an expression; slotted marks the calls that are
\* direct members of the child list of an api_custom_element call
RECURSIVE ElementCalls(_, _), ElementCallsAll(_, _)
ElementCallsAll(es, slotted) ==
  IF es = <<>> THEN {}
  ELSE ElementCalls(Head(es), slotted) \cup ElementCallsAll(Tail(es), slotted)

ElementCalls(e, slotted) ==
  CASE e.t = "array" -> ElementCallsAll(e.elems, FALSE)
    [] e.t = "object" -> ElementCallsAll([ i \in 1..Len(e.props) |-> e.props[i].val ], FALSE)
    [] e.t = "cond" -> ElementCallsAll(<<e.test, e.yes, e.no>>, FALSE)
    [] e.t = "function" -> ElementCalls(e.body, FALSE)
    [] e.t = "call" ->
         IF e.fn = "api_custom_element" /\ Len(e.args) = 4 /\ e.args[4].t = "array"
         THEN ElementCallsAll(e.args[4].elems, TRUE)
         ELSE (IF e.fn = "api_element" THEN {[call |-> e, slotted |-> slotted]} ELSE {})
              \cup ElementCallsAll(e.args, FALSE)
    [] OTHER -> {}

\* an element with literal attributes only, no directive, static children
StaticElement(e) == e.t = "call" /\ e.fn = "api_element" /\ StaticAll(e.args)

(***************************************************************************)
(* C4  Determinism of compilation is not formalised here: the compiler is  *)
(* not part of the modelled code and, as an operator, would agree with     *)
(* itself by definition.                                                   *)
(***************************************************************************)

(***************************************************************************)
(* C5 as stated: an element with only literal attributes, no directive and *)
(* only static children is never emitted as a per-render api_element call. *)
(***************************************************************************)
C5_NoStaticElementPerRender ==
  Rendered => \A c \in ElementCalls(Body, FALSE) : ~StaticElement(c.call)

(***************************************************************************)
(* C5  Static classification, amended.  Every hoisted declaration is free  *)
(* of bindings, and an element with only literal attributes, no directive  *)
(* and only static children is emitted as a per-render api_element call    *)
(* only when it is slotted content, a direct child of a custom element;    *)
(* everywhere else it is hoisted as a whole.                               *)
(***************************************************************************)
C5_StaticClassification ==
  /\ \A n \in Declared(Program(prog).hoisted) :
       StaticExpr(InitOf(Program(prog).hoisted, n))
  /\ \A c \in ElementCalls(Body, FALSE) : StaticElement(c.call) => c.slotted
  /\ Rendered =>
       \A v \in VNodes(out) :
         v.type = "static" => \E f \in DOMAIN fragment : fragment[f] = v.fragment

C5_Witness ==
  /\ Rendered /\ prog = "commentsSlots"
  /\ \E c \in ElementCalls(Body, FALSE) :
       StaticElement(c.call) /\ c.slotted /\ c.call.args[1] = Str("p")
  /\ \E v \in VNodes(out) : v.type = "element" /\ v.sel = Str("p")

(***************************************************************************)
(* The keys of a generated program: the key properties of its object       *)
(* literals and the key arguments of api_static_fragment.  slot is the     *)
(* name of the slot whose default content the key belongs to.              *)
(***************************************************************************)
NoSlot == [t |-> "none"]

RECURSIVE Keys(_, _), KeysAll(_, _), KeysProps(_, _)
KeysAll(es, slot) ==
  IF es = <<>> THEN {} ELSE Keys(Head(es), slot) \cup KeysAll(Tail(es), slot)

KeysProps(props, slot) ==
  IF props = <<>> THEN {}
  ELSE (IF Head(props).name = "key" THEN {[key |-> Head(props).val, slot |-> slot]}
        ELSE Keys(Head(props).val, slot))
       \cup KeysProps(Tail(props), slot)

Keys(e, slot) ==
  CASE e.t = "array" -> KeysAll(e.elems, slot)
    [] e.t = "object" -> KeysProps(e.props, slot)
    [] e.t = "cond" -> KeysAll(<<e.test, e.yes, e.no>>, slot)
    [] e.t = "function" -> Keys(e.body, slot)
    [] e.t = "ref" ->
         IF IsStc(e.name) THEN Keys(InitOf(Program(prog).stc, e.name), slot)
         ELSE IF IsHoisted(e.name) THEN Keys(InitOf(Program(prog).hoisted, e.name), slot)
         ELSE {}
    [] e.t = "call" ->
         IF e.fn = "api_static_fragment"
         THEN {[key |-> e.args[2], slot |-> slot]}
         ELSE IF e.fn = "api_slot"
         THEN KeysAll(<<e.args[1], e.args[2], e.args[4]>>, slot)
              \cup Keys(e.args[3], e.args[1])
         ELSE KeysAll(e.args, slot)
    [] OTHER -> {}

\* the largest structural position of the programs
MaxPosition == 11

IsPosition(e) == e.t = "num" /\ e.n \in 0..MaxPosition

\* api_key(position, authorKey)
IsCombinedKey(e) ==
  e.t = "call" /\ e.fn = "api_key" /\ Len(e.args) = 2 /\ IsPosition(e.args[1])

\* "@" slot name ":" position
IsSlotKey(e, slot) ==
  /\ e.t = "str" /\ slot.t = "str"
  /\ \E n \in 0..MaxPosition : e.s = "@" \o slot.s \o ":" \o ToString(n)

(***************************************************************************)
(* C7 as stated: every key of a generated program is a literal integer or  *)
(* api_key(position, authorKey), the default content of a slot included.   *)
(***************************************************************************)
C7_EveryKeyIsInteger ==
  Rendered =>
    /\ \A k \in Keys(Body, NoSlot) : IsPosition(k.key) \/ IsCombinedKey(k.key)
    /\ \A v \in VNodes(out) : v.type = "static" => IsPosition(v.key)

(***************************************************************************)
(* C7  Key literal form, amended.  Every key is a literal integer or       *)
(* api_key(position, authorKey), except in the default content of a slot,  *)
(* where the key of a static fragment may also be the string               *)
(* "@<slot name>:<position>"; the key a rendered node carries is the       *)
(* emitted one.                                                            *)
(***************************************************************************)
C7_KeyLiteralForm ==
  /\ \A k \in Keys(Body, NoSlot) :
       \/ IsPosition(k.key)
       \/ IsCombinedKey(k.key)
       \/ IsSlotKey(k.key, k.slot)
  /\ (Rendered /\ DeclaresSlot(prog) /\ ~HasContent(slotset, DeclaredSlotName(prog))) =>
       \A v \in VNodes(SlotNode(out).children) :
         \/ v.key.t = "undefined"
         \/ IsPosition(v.key)
         \/ IsSlotKey(v.key, Str(DeclaredSlotName(prog)))

C7_Witness ==
  /\ Rendered /\ prog = "namedSlot" /\ ~HasContent(slotset, "test")
  /\ SlotNode(out).children.elems[1].key = Str("@test:3")

(***************************************************************************)
(* C10 as stated: the slotted comment and the slotted element are both     *)
(* wrapped in api_set_owner in the child list of the custom element.       *)
(***************************************************************************)
CustomElementCall == Body.elems[1]

IsSetOwnerOf(e, kind) ==
  /\ e.t = "call" /\ e.fn = "api_set_owner"
  /\ e.args[1].t = "ref" /\ IsHoisted(e.args[1].name)
  /\ InitOf(Program(prog).hoisted, e.args[1].name).fn = kind

C10_BothWrapped ==
  (Rendered /\ prog = "commentsSlots") =>
    \A i \in 1..Len(CustomElementCall.args[4].elems) :
      CustomElementCall.args[4].elems[i].fn = "api_set_owner"

(***************************************************************************)
(* C10  Set-owner wrapping of slotted content, amended.  The slotted       *)
(* comment is wrapped in api_set_owner; the slotted element is emitted as  *)
(* an api_element call and it is its static text child that is wrapped in  *)
(* api_set_owner.  The rendered comment and text carry the owner.          *)
(***************************************************************************)
C10_SetOwnerWrapping ==
  prog = "commentsSlots" =>
    LET children == CustomElementCall.args[4].elems
    IN  /\ CustomElementCall.fn = "api_custom_element"
        /\ Len(children) = 2
        /\ IsSetOwnerOf(children[1], "api_comment")
        /\ children[2].fn = "api_element"
        /\ Len(children[2].args[3].elems) = 1
        /\ IsSetOwnerOf(children[2].args[3].elems[1], "api_text")
        /\ Rendered =>
             LET slotted == out.elems[1].children.elems
             IN  /\ slotted[1] = api_set_owner(hoisted["$hoisted1"])
                 /\ slotted[2].sel = Str("p")
                 /\ slotted[2].children.elems = <<api_set_owner(hoisted["$hoisted2"])>>

C10_Witness ==
  /\ Rendered /\ prog = "commentsSlots"
  /\ out.elems[1].type = "custom-element"
  /\ out.elems[1].children.elems[1].type = "comment"
  /\ out.elems[1].children.elems[2].type = "element"

(***************************************************************************)
(* The child lists of a generated program: the root list tmpl returns, the *)
(* children argument of api_element and api_custom_element, and the        *)
(* default content of api_slot.                                            *)
(***************************************************************************)
RECURSIVE ChildLists(_), ChildListsAll(_)
ChildListsAll(es) ==
  IF es = <<>> THEN {} ELSE ChildLists(Head(es)) \cup ChildListsAll(Tail(es))

ChildLists(e) ==
  CASE e.t = "array" -> ChildListsAll(e.elems)
    [] e.t = "object" -> ChildListsAll([ i \in 1..Len(e.props) |-> e.props[i].val ])
    [] e.t = "cond" -> ChildListsAll(<<e.test, e.yes, e.no>>)
    [] e.t = "function" -> ChildLists(e.body)
    [] e.t = "call" ->
         (IF e.fn \in {"api_element", "api_slot"} /\ Len(e.args) >= 3 THEN {e.args[3]}
          ELSE IF e.fn = "api_custom_element" /\ Len(e.args) >= 4 THEN {e.args[4]}
          ELSE {})
         \cup ChildListsAll(e.args)
    [] OTHER -> {}

IsFlattened(list) == list.t = "call" /\ list.fn = "api_flatten"

\* the members of a child list, inside the api_flatten call when there is one
Members(list) == IF IsFlattened(list) THEN list.args[1].elems ELSE list.elems

\* a member that yields zero, one or many siblings
IsVariable(e) == e.t = "cond" \/ (e.t = "call" /\ e.fn = "api_iterator")

\* what a node shows of its origin: its text or its key
Label(v) ==
  IF v.type = "text" THEN v.text.s
  ELSE IF v.key.t = "str" THEN v.key.s
  ELSE ToString(v.key.n)

Labels(list) == [ i \in 1..Len(list) |-> Label(list[i]) ]

\* for every item in turn, one label "position:id" per position
RECURSIVE ItemLabels(_, _)
ItemLabels(items, positions) ==
  IF items = <<>> THEN <<>>
  ELSE [ i \in 1..Len(positions) |->
           ToString(positions[i]) \o ":" \o GetProp(Head(items), "id").s ]
       \o ItemLabels(Tail(items), positions)

(***************************************************************************)
(* C8  Flattening.  A child list is wrapped in api_flatten exactly when it *)
(* has an iteration or a conditional member.  Every child list of a render *)
(* result holds single nodes only, and the children of the three sections  *)
(* of the flattened template come in source order for every collection     *)
(* and condition value.                                                    *)
(***************************************************************************)
C8_Flattening ==
  /\ \A list \in ChildLists(Body) \cup {Body} :
       IsFlattened(list) <=> \E i \in 1..Len(Members(list)) : IsVariable(Members(list)[i])
  /\ Rendered =>
       /\ \A i \in 1..Len(out.elems) : out.elems[i].t = "vnode"
       /\ \A v \in VNodes(out) :
            v.children.t = "array" =>
              \A i \in 1..Len(v.children.elems) : v.children.elems[i].t = "vnode"
  /\ (Rendered /\ prog = "staticSiblings") =>
       LET items == ItemsOf(cmp)
       IN  /\ Labels(out.elems[1].children.elems) =
                <<"Other Child">> \o [ i \in 1..Len(items) |-> "X" ] \o <<"2">>
           /\ Labels(out.elems[2].children.elems) =
                <<"Other Child">> \o
                (IF Truthy(GetProp(cmp, "isTrue")) THEN ItemLabels(items, <<4, 5>>)
                 ELSE <<>>)
           /\ Labels(out.elems[3].children.elems) = <<"8">> \o ItemLabels(items, <<9>>)

C8_Witness ==
  /\ Rendered /\ prog = "staticSiblings"
  /\ Len(ItemsOf(cmp)) = 2 /\ Truthy(GetProp(cmp, "isTrue"))
  /\ Len(out.elems[2].children.elems) = 5
  /\ Len(out.elems[3].children.elems) = 3

(***************************************************************************)
(* C9  Slot name recording.  The slot names declared in the template of a  *)
(* generated program are pairwise distinct, the name of a slot without a   *)
(* name is the empty string, and tmpl.slots lists exactly the declared     *)
(* names and is absent when the template declares no slot; in every        *)
(* generated program of the repository tmpl.slots lists exactly the names  *)
(* of the api_slot calls of tmpl, and it is what the compiler generates    *)
(* for a template with these declarations.                                 *)
(***************************************************************************)
\* the slot names of the api_slot calls, in source order
RECURSIVE SlotCallNames(_), SlotCallNamesAll(_)
SlotCallNamesAll(es) ==
  IF es = <<>> THEN <<>> ELSE SlotCallNames(Head(es)) \o SlotCallNamesAll(Tail(es))

SlotCallNames(e) ==
  CASE e.t = "array" -> SlotCallNamesAll(e.elems)
    [] e.t = "cond" -> SlotCallNamesAll(<<e.test, e.yes, e.no>>)
    [] e.t = "function" -> SlotCallNames(e.body)
    [] e.t = "call" ->
         (IF e.fn = "api_slot" THEN <<e.args[1]>> ELSE <<>>) \o SlotCallNamesAll(e.args)
    [] OTHER -> <<>>

\* the names of the <slot> declarations of the template, in source order
TemplateSlotNames == [i \in 1..Len(template) |-> SlotName(template[i])]

Colons(text) == SelectSeq([ i \in 1..Len(text) |-> i ], LAMBDA i : text[i] = ":")

EmittedStyleDecls ==
  GetProp(InitOf(tmpl_styleImportant.hoisted, "$hoisted1").args[2], "styleDecls")

C6_StyleDeclarationOrder ==
  styleDecls # Undefined =>
    LET at == Colons(styleText)
    IN  /\ Len(styleDecls.elems) = Len(at)
        /\ \A k \in 1..Len(at) :
             styleDecls.elems[k] =
               StyleTriple(styleText[at[k] - 1], styleText[at[k] + 1],
                           /\ at[k] + 2 <= Len(styleText)
                           /\ styleText[at[k] + 2] = "!important")
        /\ styleText = styleImportant_authored =>
             /\ styleDecls = EmittedStyleDecls
             /\ GetProp(hoisted["$hoisted1"].data, "styleDecls") = styleDecls

C6_Witness ==
  /\ styleText = styleImportant_authored
  /\ styleDecls # Undefined
  /\ Len(styleDecls.elems) = 3

(***************************************************************************)
(* C11  Metadata ordering, as stated: whenever registerTemplate(tmpl) is   *)
(* called, tmpl already carries its compiled metadata, the stylesheet list *)
(* and, where the template declares slots, the slot names.                 *)
(***************************************************************************)
C11_MetadataBeforeRegistration ==
  \A i \in 1..Len(registered) :
    /\ registered[i].stylesheets # Absent
    /\ Program(prog).slots # Absent => registered[i].slots # Absent

(***************************************************************************)
(* C11  Metadata ordering, as generated: registerTemplate(tmpl) is called  *)
(* once, first, on a tmpl that carries no metadata yet; the statements     *)
(* that follow attach tmpl.slots and tmpl.stylesheets, so that the         *)
(* evaluated module, and with it every render, has the declared slot names *)
(* and the stylesheet list on tmpl.                                        *)
(***************************************************************************)
C11_MetadataOrdering ==
  /\ Len(registered) <= 1
  /\ \A i \in 1..Len(registered) : registered[i] = NoProps
  /\ tmplProps # NoProps => Len(registered) = 1
  /\ Evaluated =>
       /\ Len(registered) = 1
       /\ tmplProps.slots = Program(prog).slots
       /\ tmplProps.stylesheets = Program(prog).stylesheets
  /\ Rendered => Evaluated

C11_Witness ==
  /\ Evaluated
  /\ Rendered
  /\ registered = <<NoProps>>
  /\ tmplProps.slots = Arr(<<Str("test")>>)
  /\ tmplProps.stylesheets = Arr(<<>>)

(***************************************************************************)
(* The static fragment calls of a program:                                 *)
(* api_static_fragment($fragmentN || ($fragmentN = $hoistedM()), key)      *)
(***************************************************************************)
RECURSIVE StaticCalls(_), StaticCallsAll(_), StaticCallsProps(_)
StaticCallsAll(es) ==
  IF es = <<>> THEN {} ELSE StaticCalls(Head(es)) \cup StaticCallsAll(Tail(es))

StaticCallsProps(props) ==
  IF props = <<>> THEN {}
  ELSE StaticCalls(Head(props).val) \cup StaticCallsProps(Tail(props))

StaticCalls(e) ==
  CASE e.t = "array" -> StaticCallsAll(e.elems)
    [] e.t = "object" -> StaticCallsProps(e.props)
    [] e.t = "cond" -> StaticCallsAll(<<e.test, e.yes, e.no>>)
    [] e.t = "function" -> StaticCalls(e.body)
    [] e.t = "call" ->
         IF e.fn = "api_static_fragment" /\ e.args[1].t = "lazy"
         THEN {[fragment |-> e.args[1].fragment, hoisted |-> e.args[1].hoisted,
                key |-> e.args[2]]}
         ELSE StaticCallsAll(e.args)
    [] OTHER -> {}

\* two hoisted declarations made of the same markup
SameMarkup(h1, h2) ==
  /\ h1 # h2
  /\ IsHoisted(h1) /\ IsHoisted(h2)
  /\ InitOf(Program(prog).hoisted, h1).t = "template"
  /\ InitOf(Program(prog).hoisted, h1) = InitOf(Program(prog).hoisted, h2)

(***************************************************************************)
(* C13  Independent hoisting.  Every static position of a template has a   *)
(* hoisted declaration and a cache variable of its own, also where two     *)
(* positions have identical markup; a cache variable only ever holds an    *)
(* instance made by its own declaration, the static node a render returns  *)
(* for a position carries the instance of that position's cache, and the   *)
(* instances of two positions with identical markup are different.         *)
(***************************************************************************)
C13_IndependentHoisting ==
  LET static == StaticCalls(Body) IN
  /\ \A c, d \in static :
       (c.fragment = d.fragment \/ c.hoisted = d.hoisted \/ c.key = d.key) => c = d
  /\ \A c \in static :
       /\ c.fragment \in DOMAIN fragment
       /\ fragment[c.fragment] \in {Undefined, FragmentInstance(c.hoisted, 1)}
       /\ Rendered =>
            /\ fragment[c.fragment] = FragmentInstance(c.hoisted, 1)
            /\ \A v \in VNodes(out) :
                 (v.type = "static" /\ v.key = c.key) => v.fragment = fragment[c.fragment]
  /\ \A c, d \in static :
       (SameMarkup(c.hoisted, d.hoisted) /\ Rendered) =>
         /\ c.fragment # d.fragment
         /\ fragment[c.fragment] # fragment[d.fragment]
         /\ created[c.hoisted] = 1 /\ created[d.hoisted] = 1

C13_Witness ==
  /\ Rendered
  /\ \E c, d \in StaticCalls(Body) :
       /\ SameMarkup(c.hoisted, d.hoisted)
       /\ \E v, w \in VNodes(out) :
            /\ v.type = "static" /\ v.key = c.key /\ v.fragment = fragment[c.fragment]
            /\ w.type = "static" /\ w.key = d.key /\ w.fragment = fragment[d.fragment]
            /\ v.fragment # w.fragment

(***************************************************************************)
(* Reading the calls on the patched registry.                              *)
(***************************************************************************)
\* this step is a call customElements.define(name, C) without options
DefineStep == calls' = calls + 1 /\ last'.op = "define" /\ ~last'.ext

\* the names whose customElements.define returned, per tag
DefinedNames(tagName) == { n \in DOMAIN defined : ToLowerCase(n) = tagName }

\* the tag was registered by LWC through the helper only
LwcOnly(tagName) ==
  /\ ValidName(tagName)
  /\ Has(pivotCtorByTag, tagName)
  /\ DefinedNames(tagName) = {}

(***************************************************************************)
(* C14  Duplicate tag name in define.  A call define(name, C) whose        *)
(* lower-cased name has an entry in definitionsByTag throws 'the name has  *)
(* already been used with this registry', whoever made the entry and also  *)
(* when C itself is already used.                                          *)
(***************************************************************************)
C14_DuplicateTagName ==
  [][(DefineStep /\ Has(definitionsByTag, ToLowerCase(last'.name)))
       => last'.result = "name already used"]_vars

C14_Witness ==
  /\ last.op = "define" /\ ~last.ext
  /\ last.name = "X-A"
  /\ last.result = "name already used"
  /\ LwcOnly("x-a")
  /\ Has(definitionsByClass, last.ctor)

(***************************************************************************)
(* C15  Duplicate constructor in define.  A call define(name, C) with an   *)
(* unused tag name throws 'this constructor has already been used with     *)
(* this registry' when C has an entry in definitionsByClass, and no        *)
(* constructor is ever defined by define under two names.                  *)
(***************************************************************************)
C15_DuplicateConstructor ==
  /\ [][(/\ DefineStep
         /\ ~Has(definitionsByTag, ToLowerCase(last'.name))
         /\ Has(definitionsByClass, last'.ctor))
          => last'.result = "constructor already used"]_vars
  /\ [](\A n1, n2 \in DOMAIN defined : defined[n1] = defined[n2] => n1 = n2)

C15_Witness ==
  /\ last.op = "define" /\ ~last.ext
  /\ last.result = "constructor already used"
  /\ ~Has(definitionsByTag, ToLowerCase(last.name))
  /\ \E n \in DOMAIN defined : defined[n] = last.ctor

(***************************************************************************)
(* C16  Failed define changes nothing.  A call of define that throws       *)
(* leaves definitionsByTag, definitionsByClass, pivotCtorByTag,            *)
(* awaitingUpgrade and the native registry as they were.                   *)
(***************************************************************************)
C16_FailedDefineChangesNothing ==
  [][(calls' = calls + 1 /\ last'.op = "define" /\ last'.result # "ok")
       => UNCHANGED <<definitionsByTag, definitionsByClass, pivotCtorByTag,
                      awaitingUpgrade, nativeRegistry>>]_vars

(***************************************************************************)
(* C17  Single patch.  patchCustomElementRegistry succeeds at most once:   *)
(* define, get, whenDefined and window.HTMLElement are replaced once, and  *)
(* a call on a patched registry throws 'called twice' and replaces         *)
(* nothing.                                                                *)
(***************************************************************************)
C17_SinglePatch ==
  /\ [](replaced <= 1 /\ (patched <=> replaced = 1))
  /\ [][(last' # last /\ last'.op = "patch" /\ patched)
          => (last'.result = "called twice" /\ replaced' = replaced /\ patched')]_vars

C17_Witness ==
  /\ last.op = "patch"
  /\ last.result = "called twice"
  /\ patched /\ replaced = 1
  /\ DOMAIN definitionsByTag # {}

(***************************************************************************)
(* C18  get returns the user's constructor.  Once define(name, C) has      *)
(* returned, every get(name) returns C, and get of a name whose tag has no *)
(* native definition returns undefined.                                    *)
(***************************************************************************)
C18_GetReturnsUserCtor ==
  last.op = "get" =>
    /\ Has(defined, last.name) => last.result = defined[last.name]
    /\ ToLowerCase(last.name) \notin nativeRegistry => last.result = "undefined"

(***************************************************************************)
(* C19  whenDefined resolution, its part on finite runs.  A promise of     *)
(* whenDefined(name) is resolved only when the tag has a definition, with  *)
(* the constructor given to define(name, C) when that call has returned,   *)
(* and it is not rejected once define(name, C) has returned.               *)
(***************************************************************************)
C19_WhenDefinedResolution ==
  \A i \in 1..Len(promises) :
    LET p == promises[i] IN
    /\ p.state = "resolved" => Has(definitionsByTag, ToLowerCase(p.name))
    /\ (p.state = "resolved" /\ Has(defined, p.name)) => p.value = defined[p.name]
    /\ Has(defined, p.name) => p.state # "rejected"

(***************************************************************************)
(* C20  Late global definition upgrades waiting elements.  An element the  *)
(* browser creates for a tag that only LWC has registered is queued in     *)
(* pendingRegistryForElement until a global definition arrives, and a      *)
(* define of such a tag is not refused as a name already used.             *)
(***************************************************************************)
C20_LateDefinitionUpgrades ==
  /\ \A e \in DOMAIN elements :
       (elements[e].pivot /\ LwcOnly(elements[e].tag))
         => Has(pendingRegistryForElement, e)
  /\ (last.op = "define" /\ LwcOnly(ToLowerCase(last.name)))
       => last.result # "name already used"


\* the attribute n of element e changes through setAttribute or removeAttribute
AttributeChange(e, n) ==
  \/ SetAttribute(e, n)
  \/ n \in elements[e].attributes /\ RemoveAttribute(e, n)

\* C21: for an element upgraded with the instanced definition D, a change of
\* the attribute n through setAttribute or removeAttribute invokes
\* D.attributeChangedCallback exactly once if n is in D.observedAttributes
\* and not at all otherwise.
C21_CallbackFollowsInstance ==
  [][\A e \in DOMAIN elements, n \in Attributes :
       (Has(definitionForElement, e) /\ elements[e].upgrades > 0 /\ AttributeChange(e, n))
         => \A m \in Attributes :
              elements'[e].attributeChanged[m] =
                IF m = n /\ n \in createDefinitionRecord(definitionForElement[e]).observedAttributes
                THEN 1 ELSE 0]_vars
====
